---- MODULE Spec2Model ----
(***************************************************************************)
(* Archive job engines of the keybase client.                              *)
(*                                                                         *)
(*   - the chat archive registry and its executor (package chat:           *)
(*     ChatArchiveRegistry, ChatArchiver), specification Spec;             *)
(*   - the simplefs stage pipeline (package simplefs: archiveManager),     *)
(*     specification SpecFS (LiveFS with the workers' fairness);           *)
(*   - a registry constructed over a persisted history, LiveLoaded;        *)
(*   - copyFile on one regular file entry, specification SpecCopyFile;     *)
(*   - the packaging of a copied job, LiveZip;                             *)
(*   - archiveConv on the chat.txt of one conversation, SpecConv;          *)
(*   - List and its sort, SpecList.                                        *)
(*                                                                         *)
(* Go maps are functions whose DOMAIN is the set of present keys.  The     *)
(* registry mutex is held by the multi-step call recorded in `caller`;     *)
(* every handler that never blocks while holding it is one atomic action   *)
(* guarded by LockFree.                                                    *)
(***************************************************************************)
EXTENDS Integers, FiniteSets, Sequences, TLC

\* ------------------------------------------------------------------ bounds
NumJobs == 1
NumExecs == 2
NumPages == 1
NumFSJobs == 1
NumDescs == 1
NumEntries == 3
FileChunks == 1
MaxBytes == 2
MaxTime == 1
MaxCalls == 3
MaxFaults == 1
\* archiveErrorRetryDuration, the unit of `now`
RetryDuration == 1

Jobs == 1 .. NumJobs
FSJobs == 1 .. NumFSJobs
Descs == 1 .. NumDescs
Entries == 1 .. NumEntries
Workers == {"indexing", "copying", "zipping"}
Execs == 1 .. NumExecs
NoExec == 0
NoJobID == 0

VARIABLES
    \* ---- chat archive registry (ChatArchiveRegistry)
    started,      \* r.started
    inited,       \* r.inited: populated from disk?
    dirty,        \* r.dirty: changes to flush to disk?
    edb,          \* the encrypted db entry under dbKey(): [found, hist]
    jobHistory,   \* r.jobHistory.JobHistory: jobID -> job
    runningJobs,  \* r.runningJobs: jobID -> cancel handle (the executor it belongs to)
    pending,      \* resumeAllBgJobs tasks still sleeping: "start" and/or "fg"
    appState,     \* last mobile app state seen by monitorAppState
    caller,       \* the call that holds the registry mutex across a handle invocation
    mon,          \* monitorAppState's background pause (runs without the mutex)
    \* ---- chat archiver (ChatArchiver.ArchiveChat runs)
    exec,         \* per executor slot: position, job, local jobInfo, ctx, cancelCh
    outDir,       \* jobs whose output path exists on disk
    panicked      \* a goroutine panicked (close of a closed channel)

chatVars == <<started, inited, dirty, edb, jobHistory, runningJobs, pending,
              appState, caller, mon, exec, outDir, panicked>>

VARIABLES
    \* ---- simplefs stage pipeline (archiveManager)
    jobs,              \* m.state.Jobs: jobID -> job state
    jobCtxCancellers,  \* m.jobCtxCancellers: jobID -> cancel of the claiming task's ctx
    errors,            \* m.errors: jobID -> nextRetry
    sig,               \* the three capacity-1 signal channels: token present?
    worker,            \* per stage worker: position, claimed job, jobCtx, local manifest
    stateFile,         \* the state file on disk: the jobs last flushed
    staging,           \* the staging area on disk: jobID -> entry -> chunks
    now,               \* time.Now(), in units of archiveErrorRetryDuration
    budget,            \* requests made and faults injected so far
    fsPanicked         \* a worker goroutine panicked (write to a nil map)

fsVars == <<jobs, jobCtxCancellers, errors, sig, worker, stateFile, staging,
            now, budget, fsPanicked>>

VARIABLES
    \* ---- one regular file of a job under copyFile
    srcFile,           \* the bytes of the entry in the archived source
    dstFile,           \* the file at localPath: [exists, bytes]
    copy,              \* doCopying at this entry: position, src offset, tee hash, ...
    \* ---- the archives the jobs package
    zipFile,           \* jobID -> the file at the job's ZipFilePath
    \* ---- one conversation of a chat archive job
    conv,              \* its chat.txt, its checkpoint (in the job and in the db), the
                       \* job's status and the ArchiveChat runs working on it
    \* ---- a call of List
    listing            \* the history it ranges over and res.Jobs

fileVars == <<srcFile, dstFile, copy, zipFile, conv, listing>>

vars == <<chatVars, fsVars, fileVars>>

\* ------------------------------------------------------------------ maps
EmptyMap == [x \in {} |-> 0]
MapPut(m, k, v) == [x \in (DOMAIN m) \cup {k} |-> IF x = k THEN v ELSE m[x]]
MapDel(m, k) == [x \in (DOMAIN m) \ {k} |-> m[x]]

\* ------------------------------------------------------------------ chat data
\* chat1.ArchiveChatJob as far as the registry reads it: Status, the
\* checkpointed page count of the conversation (Checkpoints), Err != "".
NewJobInfo == [status |-> "Running", cp |-> 0, err |-> FALSE]

FreeExec == [pc |-> "idle", job |-> NoJobID, info |-> NewJobInfo,
             ctxDone |-> FALSE, cancelClosed |-> FALSE, failed |-> FALSE,
             ctxErr |-> FALSE]

Idle == [op |-> "none", job |-> NoJobID, e |-> NoExec, st |-> "none",
         todo |-> {}, del |-> FALSE]

LockFree == caller.op = "none" /\ ~panicked

\* initLocked: the history every handler works on once it holds the mutex.
InitHist ==
    IF inited THEN jobHistory
    ELSE IF edb.found THEN edb.hist ELSE EmptyMap

\* An ArchiveChat goroutine that has returned is forgotten once no handle of
\* it is stored and no call waits on its doneCh.
Collect(ex, running, c, m) ==
    [e \in Execs |->
        IF /\ ex[e].pc = "done"
           /\ \A j \in DOMAIN running : running[j] # e
           /\ c.e # e
           /\ m.e # e
        THEN FreeExec
        ELSE ex[e]]

\* Slots in which a new ArchiveChat goroutine can be started.
FreeSlots == {e \in Execs : exec[e].pc = "idle"}

Slot == CHOOSE e \in FreeSlots : \A f \in FreeSlots : e <= f

Launched(j) == [FreeExec EXCEPT !.pc = "launched", !.job = j]

\* ------------------------------------------------------------------ registry
Init ==
    /\ started = FALSE
    /\ inited = FALSE
    /\ dirty = FALSE
    /\ edb = [found |-> FALSE, hist |-> EmptyMap]
    /\ jobHistory = EmptyMap
    /\ runningJobs = EmptyMap
    /\ pending = {}
    /\ appState = "fg"
    /\ caller = Idle
    /\ mon = Idle
    /\ exec = [e \in Execs |-> FreeExec]
    /\ outDir = {}
    /\ panicked = FALSE

\* Variant: a failed Put clears the dirty bit as well.
flushLockedClearsOnError(hist, isDirty, ok) ==
    IF isDirty /\ ok
    THEN /\ edb' = [found |-> TRUE, hist |-> hist]
         /\ dirty' = FALSE
    ELSE /\ edb' = edb
         /\ dirty' = FALSE

\* flushLocked: Put only when dirty; the Put succeeds (ok) or fails.
flushLocked(hist, isDirty, ok) ==
    IF isDirty /\ ok
    THEN /\ edb' = [found |-> TRUE, hist |-> hist]
         /\ dirty' = FALSE
    ELSE /\ edb' = edb
         /\ dirty' = isDirty

\* flushLoop: one tick of the flush timer.
flushLoop ==
    /\ LockFree
    /\ started
    /\ \E ok \in BOOLEAN : flushLocked(jobHistory, dirty, ok)
    /\ UNCHANGED <<started, inited, jobHistory, runningJobs, pending, appState,
                   caller, mon, exec, outDir, panicked, fsVars, fileVars>>

Start ==
    /\ LockFree
    /\ ~started
    /\ started' = TRUE
    /\ pending' = pending \cup {"start"}
    /\ UNCHANGED <<inited, dirty, edb, jobHistory, runningJobs, appState,
                   caller, mon, exec, outDir, panicked, fsVars, fileVars>>

\* Set: the executor's registration, checkpoints and final status.
Set(cancel, jobID, job) ==
    IF ~started
    THEN UNCHANGED <<inited, jobHistory, runningJobs, dirty>>
    ELSE /\ inited' = TRUE
         /\ runningJobs' =
               IF job.status \in {"Complete", "Error"}
               THEN MapDel(runningJobs, jobID)
               ELSE IF job.status = "Running" /\ cancel # NoExec
                    THEN MapPut(runningJobs, jobID, cancel)
                    ELSE runningJobs
         /\ jobHistory' = MapPut(InitHist, jobID, job)
         /\ dirty' = TRUE

\* ------------------------------------------------------------------ executor
\* ArchiveChat up to and including ArchiveRegistry.Get: the output path is
\* created, then the job is read from the registry (or made new).
ArchiveChatGet(e) ==
    /\ LockFree
    /\ exec[e].pc = "launched"
    /\ outDir' = outDir \cup {exec[e].job}
    /\ IF ~started
       THEN \* Get fails with "not started": ArchiveChat returns the error
            /\ exec' = [exec EXCEPT ![e] = FreeExec]
            /\ UNCHANGED <<inited, jobHistory>>
       ELSE /\ inited' = TRUE
            /\ jobHistory' = InitHist
            /\ exec' = [exec EXCEPT ![e].pc = "got",
                                     ![e].info =
                                         IF exec[e].job \in DOMAIN InitHist
                                         THEN [InitHist[exec[e].job]
                                                 EXCEPT !.status = "Running",
                                                        !.err = FALSE]
                                         ELSE NewJobInfo]
    /\ UNCHANGED <<started, dirty, edb, runningJobs, pending, appState, caller,
                   mon, panicked, fsVars, fileVars>>

\* MkdirAll or InboxSource.Read fails: ArchiveChat returns before it registers.
ArchiveChatEarlyErr(e) ==
    /\ ~panicked
    /\ exec[e].pc = "launched"
    /\ exec' = [exec EXCEPT ![e] = FreeExec]
    /\ UNCHANGED <<started, inited, dirty, edb, jobHistory, runningJobs, pending,
                   appState, caller, mon, outDir, panicked, fsVars, fileVars>>

\* "Mark ourselves as running": Set(ctx, pause, jobInfo).
ArchiveChatRegister(e) ==
    /\ LockFree
    /\ exec[e].pc = "got"
    /\ Set(e, exec[e].job, exec[e].info)
    /\ UNCHANGED <<started, edb, pending, appState, caller, mon, outDir,
                   panicked, fsVars, fileVars>>
    /\ exec' = Collect([exec EXCEPT ![e] = IF started
                                           THEN [@ EXCEPT !.pc = "running"]
                                           ELSE FreeExec],
                       runningJobs', caller, mon)

\* archiveConv: one page pulled, rendered and written; checkpointConv has
\* updated job.Checkpoints and is about to call Set.
archiveConv(e) ==
    /\ ~panicked
    /\ exec[e].pc = "running"
    /\ exec[e].info.cp < NumPages
    /\ exec' = [exec EXCEPT ![e].pc = "checkpoint", ![e].info.cp = @ + 1]
    /\ UNCHANGED <<started, inited, dirty, edb, jobHistory, runningJobs, pending,
                   appState, caller, mon, outDir, panicked, fsVars, fileVars>>

\* checkpointConv: ArchiveRegistry.Set(ctx, nil, *job); an error is only logged.
checkpointConv(e) ==
    /\ LockFree
    /\ exec[e].pc = "checkpoint"
    /\ Set(NoExec, exec[e].job, exec[e].info)
    /\ exec' = [exec EXCEPT ![e].pc = "running"]
    /\ UNCHANGED <<started, edb, pending, appState, caller, mon, outDir,
                   panicked, fsVars, fileVars>>

\* eg.Wait() returns: every page is written (err = nil), or a pull, a
\* download or the compression failed, or the context was cancelled (err # nil).
\* ctxErr: the error came up after the handle's cancel() of the context.
ArchiveChatWait(e) ==
    /\ ~panicked
    /\ exec[e].pc = "running"
    /\ \E failed \in BOOLEAN :
          /\ (~failed) => exec[e].info.cp = NumPages
          /\ exec' = [exec EXCEPT ![e].pc = "exiting", ![e].failed = failed,
                                   ![e].ctxErr = failed /\ exec[e].ctxDone]
    /\ UNCHANGED <<started, inited, dirty, edb, jobHistory, runningJobs, pending,
                   appState, caller, mon, outDir, panicked, fsVars, fileVars>>

\* The exit defer's select on cancelCh: canceled by the registry (return,
\* close(doneCh)), or go on to update the registry.
ArchiveChatDefer(e) ==
    /\ ~panicked
    /\ exec[e].pc = "exiting"
    /\ exec' = Collect([exec EXCEPT ![e] =
                          IF exec[e].cancelClosed
                          THEN [@ EXCEPT !.pc = "done", !.ctxErr = FALSE]
                          ELSE [@ EXCEPT !.pc = "final",
                                         !.info.status =
                                             IF exec[e].failed THEN "Error"
                                                               ELSE "Complete",
                                         !.info.err = exec[e].failed]],
                       runningJobs, caller, mon)
    /\ UNCHANGED <<started, inited, dirty, edb, jobHistory, runningJobs, pending,
                   appState, caller, mon, outDir, panicked, fsVars, fileVars>>

\* The exit defer's Set(ctx, nil, jobInfo), then close(doneCh).
ArchiveChatFinalSet(e) ==
    /\ LockFree
    /\ exec[e].pc = "final"
    /\ Set(NoExec, exec[e].job, exec[e].info)
    /\ UNCHANGED <<started, edb, pending, appState, caller, mon, outDir,
                   panicked, fsVars, fileVars>>
    /\ exec' = Collect([exec EXCEPT ![e].pc = "done", ![e].ctxErr = FALSE],
                       runningJobs', caller, mon)

\* ------------------------------------------------------------------ handles
\* The pause closure of executor e, first half: cancel().
CancelCtx(ex, e) == [ex EXCEPT ![e].ctxDone = TRUE]

\* The pause closure, close(cancelCh), by the call holding the mutex.  A second
\* close of the same channel panics.
pauseCloseCancelCh ==
    /\ ~panicked
    /\ caller.st = "close"
    /\ IF exec[caller.e].cancelClosed
       THEN /\ panicked' = TRUE
            /\ UNCHANGED <<exec, caller>>
       ELSE /\ exec' = [exec EXCEPT ![caller.e].cancelClosed = TRUE]
            /\ caller' = [caller EXCEPT !.st = "wait"]
            /\ UNCHANGED panicked
    /\ UNCHANGED <<started, inited, dirty, edb, jobHistory, runningJobs, pending,
                   appState, mon, outDir, fsVars, fileVars>>

\* The same step of the closure when monitorAppState invoked it.
monCloseCancelCh ==
    /\ ~panicked
    /\ mon.st = "close"
    /\ IF exec[mon.e].cancelClosed
       THEN /\ panicked' = TRUE
            /\ UNCHANGED <<exec, mon>>
       ELSE /\ exec' = [exec EXCEPT ![mon.e].cancelClosed = TRUE]
            /\ mon' = [mon EXCEPT !.st = "wait"]
            /\ UNCHANGED panicked
    /\ UNCHANGED <<started, inited, dirty, edb, jobHistory, runningJobs, pending,
                   appState, caller, outDir, fsVars, fileVars>>

\* <-doneCh has returned for the executor the call is waiting on.
Drained(c) == c.st = "wait" /\ exec[c.e].pc = "done"

\* ------------------------------------------------------------------ Pause
PauseResult(jobID) ==
    IF ~started THEN "NotStarted"
    ELSE IF jobID \notin DOMAIN InitHist THEN "NotFound"
    ELSE IF InitHist[jobID].status # "Running" THEN "Error"
    ELSE IF jobID \notin DOMAIN runningJobs THEN "NotFound"
    ELSE "ok"

\* A Pause that looks for the handle only, whatever the job's record says.
PauseUnchecked(jobID) ==
    /\ LockFree
    /\ IF started /\ jobID \in DOMAIN runningJobs
       THEN /\ inited' = TRUE
            /\ jobHistory' = InitHist
            /\ runningJobs' = MapDel(runningJobs, jobID)
            /\ exec' = CancelCtx(exec, runningJobs[jobID])
            /\ caller' = [Idle EXCEPT !.op = "Pause", !.job = jobID,
                                      !.e = runningJobs[jobID], !.st = "close"]
       ELSE /\ inited' = (inited \/ started)
            /\ jobHistory' = IF started THEN InitHist ELSE jobHistory
            /\ UNCHANGED <<runningJobs, exec, caller>>
    /\ UNCHANGED <<started, dirty, edb, pending, appState, mon, outDir,
                   panicked, fsVars, fileVars>>

\* Pause up to cancel(): the checks, delete(r.runningJobs, jobID), and the
\* handle's cancel() of the job's context.
Pause(jobID) ==
    /\ LockFree
    /\ IF PauseResult(jobID) = "ok"
       THEN /\ inited' = TRUE
            /\ jobHistory' = InitHist
            /\ runningJobs' = MapDel(runningJobs, jobID)
            /\ exec' = CancelCtx(exec, runningJobs[jobID])
            /\ caller' = [Idle EXCEPT !.op = "Pause", !.job = jobID,
                                      !.e = runningJobs[jobID], !.st = "close"]
       ELSE /\ inited' = (inited \/ started)
            /\ jobHistory' = IF started THEN InitHist ELSE jobHistory
            /\ UNCHANGED <<runningJobs, exec, caller>>
    /\ UNCHANGED <<started, dirty, edb, pending, appState, mon, outDir,
                   panicked, fsVars, fileVars>>

\* Pause after cancel() returned the executor's jobInfo.
PauseReturn ==
    /\ ~panicked
    /\ caller.op = "Pause"
    /\ Drained(caller)
    /\ jobHistory' = MapPut(jobHistory, caller.job,
                            [exec[caller.e].info EXCEPT !.status = "Paused"])
    /\ dirty' = TRUE
    /\ caller' = Idle
    /\ exec' = Collect(exec, runningJobs, Idle, mon)
    /\ UNCHANGED <<started, inited, edb, runningJobs, pending, appState, mon,
                   outDir, panicked, fsVars, fileVars>>

\* ------------------------------------------------------------------ Delete
DeleteResult(hist, jobID) ==
    IF jobID \notin DOMAIN hist THEN "NotFound" ELSE "ok"

\* The tail of Delete, after the handle (if any) was invoked and removed.
DeleteTail(hist, jobID, deleteOutputPath) ==
    IF DeleteResult(hist, jobID) = "NotFound"
    THEN /\ jobHistory' = hist
         /\ UNCHANGED <<dirty, outDir>>
    ELSE /\ jobHistory' = MapDel(hist, jobID)
         /\ dirty' = TRUE
         /\ outDir' = IF deleteOutputPath THEN outDir \ {jobID} ELSE outDir

Delete(jobID, deleteOutputPath) ==
    /\ LockFree
    /\ started
    /\ inited' = TRUE
    /\ IF jobID \in DOMAIN runningJobs
       THEN /\ jobHistory' = InitHist
            /\ exec' = CancelCtx(exec, runningJobs[jobID])
            /\ caller' = [Idle EXCEPT !.op = "Delete", !.job = jobID,
                                      !.e = runningJobs[jobID],
                                      !.st = "close",
                                      !.del = deleteOutputPath]
            /\ UNCHANGED <<dirty, runningJobs, outDir>>
       ELSE /\ DeleteTail(InitHist, jobID, deleteOutputPath)
            /\ UNCHANGED <<runningJobs, caller, exec>>
    /\ UNCHANGED <<started, edb, pending, appState, mon, panicked, fsVars, fileVars>>

DeleteReturn ==
    /\ ~panicked
    /\ caller.op = "Delete"
    /\ Drained(caller)
    /\ runningJobs' = MapDel(runningJobs, caller.job)
    /\ DeleteTail(jobHistory, caller.job, caller.del)
    /\ caller' = Idle
    /\ exec' = Collect(exec, runningJobs', Idle, mon)
    /\ UNCHANGED <<started, inited, edb, pending, appState, mon, panicked,
                   fsVars, fileVars>>

\* ------------------------------------------------------------------ Resume
ResumeResult(jobID) ==
    IF ~started THEN "NotStarted"
    ELSE IF jobID \notin DOMAIN InitHist THEN "NotFound"
    ELSE IF InitHist[jobID].status \notin {"Error", "Paused", "BackgroundPaused"}
         THEN "Error"
    ELSE "ok"

\* A Resume that launches for every job of the history, whatever its status.
ResumeUnchecked(jobID) ==
    /\ LockFree
    /\ inited' = (inited \/ started)
    /\ jobHistory' = IF started THEN InitHist ELSE jobHistory
    /\ IF started /\ jobID \in DOMAIN InitHist
       THEN /\ FreeSlots # {}
            /\ exec' = [exec EXCEPT ![Slot] = Launched(jobID)]
       ELSE UNCHANGED exec
    /\ UNCHANGED <<started, dirty, edb, runningJobs, pending, appState, caller,
                   mon, outDir, panicked, fsVars, fileVars>>

\* Resume: the checks, then `go ArchiveChat(...)`; the status is left as it is.
Resume(jobID) ==
    /\ LockFree
    /\ inited' = (inited \/ started)
    /\ jobHistory' = IF started THEN InitHist ELSE jobHistory
    /\ IF ResumeResult(jobID) = "ok"
       THEN /\ FreeSlots # {}
            /\ exec' = [exec EXCEPT ![Slot] = Launched(jobID)]
       ELSE UNCHANGED exec
    /\ UNCHANGED <<started, dirty, edb, runningJobs, pending, appState, caller,
                   mon, outDir, panicked, fsVars, fileVars>>

\* Variant: jobs paused by the user are resumed as well.
BgOrUserPausedJobs(hist) ==
    {j \in DOMAIN hist : hist[j].status \in {"BackgroundPaused", "Paused"}}

\* The jobs resumeAllBgJobs launches an executor for.
BgPausedJobs(hist) == {j \in DOMAIN hist : hist[j].status = "BackgroundPaused"}

\* resumeAllBgJobs once its delay has elapsed (task t was not stopped).
resumeAllBgJobs(t) ==
    /\ LockFree
    /\ t \in pending
    /\ pending' = pending \ {t}
    /\ IF ~started
       THEN UNCHANGED <<inited, jobHistory, exec>>
       ELSE /\ inited' = TRUE
            /\ jobHistory' = InitHist
            /\ Cardinality(BgPausedJobs(InitHist)) <= Cardinality(FreeSlots)
            /\ LET f == CHOOSE g \in [BgPausedJobs(InitHist) -> FreeSlots] :
                          /\ \A a, b \in DOMAIN g : a < b => g[a] < g[b]
                          /\ \A a \in DOMAIN g : \A s \in FreeSlots :
                                s < g[a] => \E b \in DOMAIN g : g[b] = s
               IN exec' = [e \in Execs |->
                             IF \E j \in DOMAIN f : f[j] = e
                             THEN Launched(CHOOSE j \in DOMAIN f : f[j] = e)
                             ELSE exec[e]]
    /\ UNCHANGED <<started, dirty, edb, runningJobs, appState, caller, mon,
                   outDir, panicked, fsVars, fileVars>>

\* The ArchiveChat RPC: a client starts a job under an ID not in the history.
ArchiveChat(jobID) ==
    /\ ~panicked
    /\ jobID \notin DOMAIN InitHist
    /\ \A e \in Execs : exec[e].job # jobID
    /\ FreeSlots # {}
    /\ exec' = [exec EXCEPT ![Slot] = Launched(jobID)]
    /\ UNCHANGED <<started, inited, dirty, edb, jobHistory, runningJobs, pending,
                   appState, caller, mon, outDir, panicked, fsVars, fileVars>>

\* ------------------------------------------------------------------ Stop
\* bgPauseAllJobsLocked, as run by call c (Stop's under the mutex, the
\* monitor's without it).  c.todo is the part of the range over
\* r.runningJobs still to visit; an entry deleted meanwhile is not visited.
bgPauseNext(c) ==
    /\ c.st = "loop"
    /\ c.todo \cap DOMAIN runningJobs # {}

bgPauseInvoke(c, j) ==
    [c EXCEPT !.job = j, !.e = runningJobs[j], !.st = "close", !.todo = @ \ {j}]

bgPauseStored(c) ==
    MapPut(jobHistory, c.job, [exec[c.e].info EXCEPT !.status = "BackgroundPaused"])

bgPauseCollected(c) == [c EXCEPT !.job = NoJobID, !.e = NoExec, !.st = "loop"]

bgPauseEnd(c) ==
    /\ c.st = "loop"
    /\ c.todo \cap DOMAIN runningJobs = {}

\* Stop up to bgPauseAllJobsLocked's loop.
Stop ==
    /\ LockFree
    /\ started
    /\ started' = FALSE
    /\ caller' = [Idle EXCEPT !.op = "Stop", !.st = "loop",
                              !.todo = DOMAIN runningJobs]
    /\ UNCHANGED <<inited, dirty, edb, jobHistory, runningJobs, pending, appState,
                   mon, exec, outDir, panicked, fsVars, fileVars>>

StopInvoke ==
    /\ ~panicked
    /\ caller.op = "Stop"
    /\ bgPauseNext(caller)
    /\ \E j \in caller.todo \cap DOMAIN runningJobs :
          /\ exec' = CancelCtx(exec, runningJobs[j])
          /\ caller' = bgPauseInvoke(caller, j)
    /\ UNCHANGED <<started, inited, dirty, edb, jobHistory, runningJobs, pending,
                   appState, mon, outDir, panicked, fsVars, fileVars>>

StopCollect ==
    /\ ~panicked
    /\ caller.op = "Stop"
    /\ Drained(caller)
    /\ jobHistory' = bgPauseStored(caller)
    /\ caller' = bgPauseCollected(caller)
    /\ UNCHANGED <<started, inited, dirty, edb, runningJobs, pending, appState,
                   mon, exec, outDir, panicked, fsVars, fileVars>>

\* The end of bgPauseAllJobsLocked and of Stop: the map is replaced, the
\* history flushed, stopCh closed (the sleeping resume tasks return).
StopReturn ==
    /\ ~panicked
    /\ caller.op = "Stop"
    /\ bgPauseEnd(caller)
    /\ runningJobs' = EmptyMap
    /\ \E ok \in BOOLEAN : flushLocked(jobHistory, TRUE, ok)
    /\ pending' = {}
    /\ caller' = Idle
    /\ exec' = Collect(exec, EmptyMap, Idle, mon)
    /\ UNCHANGED <<started, inited, jobHistory, appState, mon, outDir,
                   panicked, fsVars, fileVars>>

\* ------------------------------------------------------------------ monitor
\* monitorAppState, FOREGROUND: a delayed resume is started.
AppForeground ==
    /\ ~panicked
    /\ started
    /\ mon.op = "none"
    /\ appState = "bg"
    /\ appState' = "fg"
    /\ pending' = pending \cup {"fg"}
    /\ UNCHANGED <<started, inited, dirty, edb, jobHistory, runningJobs, caller,
                   mon, exec, outDir, panicked, fsVars, fileVars>>

\* monitorAppState, any other state: cancel() of the delayed resume's
\* context, then bgPauseAllJobsLocked, called without the mutex.
AppBackground ==
    /\ ~panicked
    /\ started
    /\ mon.op = "none"
    /\ appState = "fg"
    /\ appState' = "bg"
    /\ pending' = pending \ {"fg"}
    /\ mon' = [Idle EXCEPT !.op = "BgPause", !.st = "loop",
                           !.todo = DOMAIN runningJobs]
    /\ UNCHANGED <<started, inited, dirty, edb, jobHistory, runningJobs, caller,
                   exec, outDir, panicked, fsVars, fileVars>>

monInvoke ==
    /\ ~panicked
    /\ mon.op = "BgPause"
    /\ bgPauseNext(mon)
    /\ \E j \in mon.todo \cap DOMAIN runningJobs :
          /\ exec' = CancelCtx(exec, runningJobs[j])
          /\ mon' = bgPauseInvoke(mon, j)
    /\ UNCHANGED <<started, inited, dirty, edb, jobHistory, runningJobs, pending,
                   appState, caller, outDir, panicked, fsVars, fileVars>>

monCollect ==
    /\ ~panicked
    /\ mon.op = "BgPause"
    /\ Drained(mon)
    /\ jobHistory' = bgPauseStored(mon)
    /\ mon' = bgPauseCollected(mon)
    /\ UNCHANGED <<started, inited, dirty, edb, runningJobs, pending, appState,
                   caller, exec, outDir, panicked, fsVars, fileVars>>

monReturn ==
    /\ ~panicked
    /\ mon.op = "BgPause"
    /\ bgPauseEnd(mon)
    /\ runningJobs' = EmptyMap
    /\ \E ok \in BOOLEAN : flushLocked(jobHistory, TRUE, ok)
    /\ mon' = Idle
    /\ exec' = Collect(exec, EmptyMap, caller, Idle)
    /\ UNCHANGED <<started, inited, jobHistory, pending, appState, caller,
                   outDir, panicked, fsVars, fileVars>>

\* ------------------------------------------------------------------ storage
\* The local db is nuked and the OnDbNuke hook runs.
OnDbNuke ==
    /\ LockFree
    /\ edb' = [found |-> FALSE, hist |-> EmptyMap]
    /\ inited' = IF started THEN FALSE ELSE inited
    /\ UNCHANGED <<started, dirty, jobHistory, runningJobs, pending, appState,
                   caller, mon, exec, outDir, panicked, fsVars, fileVars>>

\* The process dies and a new one constructs the registry
\* (NewChatArchiveRegistry); only the db and the disk survive.
Restart ==
    /\ started' = FALSE
    /\ inited' = FALSE
    /\ dirty' = FALSE
    /\ jobHistory' = EmptyMap
    /\ runningJobs' = EmptyMap
    /\ pending' = {}
    /\ appState' = "fg"
    /\ caller' = Idle
    /\ mon' = Idle
    /\ exec' = [e \in Execs |-> FreeExec]
    /\ panicked' = FALSE
    /\ UNCHANGED <<edb, outDir, fsVars, fileVars>>

\* ------------------------------------------------------------------ simplefs
\* keybase1.SimpleFSArchiveJobState; its zero value is what a read of a
\* missing map key yields (phase Queued is the enum's first value).
ZeroJob == [desc |-> 0, phase |-> "Queued", manifest |-> EmptyMap,
            bytesTotal |-> 0, bytesCopied |-> 0, bytesZipped |-> 0]

JobOrZero(jobID) == IF jobID \in DOMAIN jobs THEN jobs[jobID] ELSE ZeroJob

EligiblePhase(w) ==
    CASE w = "indexing" -> "Queued"
      [] w = "copying" -> "Indexed"
      [] w = "zipping" -> "Copied"

WorkingPhase(w) ==
    CASE w = "indexing" -> "Indexing"
      [] w = "copying" -> "Copying"
      [] w = "zipping" -> "Zipping"

CompletedPhase(w) ==
    CASE w = "indexing" -> "Indexed"
      [] w = "copying" -> "Copied"
      [] w = "zipping" -> "Done"

IdleWorker == [pc |-> "wait", job |-> NoJobID, ctxDone |-> FALSE,
               manifest |-> EmptyMap, i |-> 0, chunk |-> 0, unlinked |-> FALSE,
               err |-> FALSE]

AllSignals == [w \in Workers |-> TRUE]

\* No staged file: a file that does not exist and an empty one are both
\* copied from the beginning.
NoFiles == [e \in Entries |-> 0]

NoStaging == [j \in FSJobs |-> NoFiles]

\* localPath does not exist.
NoFile == [exists |-> FALSE, bytes |-> <<>>]

File(b) == [exists |-> TRUE, bytes |-> b]

\* sha256.New(): the digest of no bytes.  The digest is modelled by an
\* injective encoding of the bytes written (no two contents of the sizes
\* considered collide).
sha256New == 1

\* doCopying about to Lstat localPath for a file entry; bytes is what this
\* entry has added to job.BytesCopied, sha its recorded Sha256SumHex.
IdleCopy == [pc |-> "lstat", off |-> 0, h |-> sha256New, sha |-> 0,
             bytes |-> 0, crashes |-> 0]

\* archiveConv's checkpoint of a conversation without one: the first page,
\* offset 0.
NoCheckpoint == [cursor |-> 0, offset |-> 0, last |-> FALSE]

\* A job that ArchiveChat was just called for: not in the history, nothing
\* on disk, one run launched.  A run has its local cp, the position of its
\* file descriptor and firstPage.
NewConv ==
    [file |-> <<>>, cp |-> NoCheckpoint, status |-> "None",
     db |-> [cp |-> NoCheckpoint, status |-> "None"],
     run |-> [a \in 1 .. 2 |->
                 [pc |-> IF a = 1 THEN "launched" ELSE "idle",
                  cp |-> NoCheckpoint, pos |-> 0, first |-> FALSE]],
     reg |-> 0, crashes |-> 0]

InitManager ==
    /\ jobs = EmptyMap
    /\ jobCtxCancellers = EmptyMap
    /\ errors = EmptyMap
    /\ sig = AllSignals
    /\ worker = [w \in Workers |-> IdleWorker]
    /\ stateFile = EmptyMap
    /\ staging = NoStaging
    /\ now = 0
    /\ budget = [calls |-> 0, faults |-> 0]
    /\ fsPanicked = FALSE

InitFS ==
    /\ InitManager
    /\ srcFile = <<>>
    /\ dstFile = NoFile
    /\ copy = IdleCopy
    /\ zipFile = [j \in FSJobs |-> "none"]
    /\ conv = NewConv
    /\ listing = [pc |-> "idle", hist |-> <<>>, res |-> <<>>]

\* The environment's budget: a request (startJob, cancelOrDismissJob,
\* shutdown) and a fault (a failing I/O operation, a crash) are each drawn
\* from a bounded supply.
Spend(call, fault) ==
    /\ call => budget.calls < MaxCalls
    /\ fault => budget.faults < MaxFaults
    /\ budget' = [calls |-> budget.calls + (IF call THEN 1 ELSE 0),
                  faults |-> budget.faults + (IF fault THEN 1 ELSE 0)]

\* flushStateFileLocked: the whole state is written, or the write fails.
flushStateFileLocked(state, ok) ==
    stateFile' = IF ok THEN state ELSE stateFile

\* signal: a token is put into the channel unless one is already there.
signal(s, w) == [s EXCEPT ![w] = TRUE]

\* Variant: every job overwrites.
OverwriteZipAlways(desc) == TRUE

\* jobDesc.OverwriteZip, a field of the descriptor the client passes.
OverwriteZip(desc) == desc % 2 = 0

\* A startJob without the "job ID already exists" check.
startJobOverwrite(jobID, desc, flushOk) ==
    /\ ~fsPanicked
    /\ jobs' = MapPut(jobs, jobID, [ZeroJob EXCEPT !.desc = desc])
    /\ sig' = signal(sig, "indexing")
    /\ flushStateFileLocked(jobs', flushOk)
    /\ Spend(TRUE, ~flushOk)
    /\ UNCHANGED <<jobCtxCancellers, errors, worker, staging, now, fsPanicked,
                   chatVars, fileVars>>

\* What startJob returns.
startJobResult(jobID, flushOk) ==
    IF jobID \in DOMAIN jobs THEN "Exists"
    ELSE IF flushOk THEN "ok" ELSE "FlushError"

startJob(jobID, desc, flushOk) ==
    /\ ~fsPanicked
    /\ IF jobID \in DOMAIN jobs
       THEN /\ flushOk
            /\ UNCHANGED <<jobs, sig, stateFile>>
       ELSE /\ jobs' = MapPut(jobs, jobID, [ZeroJob EXCEPT !.desc = desc])
            /\ sig' = signal(sig, "indexing")
            /\ flushStateFileLocked(jobs', flushOk)
    /\ Spend(TRUE, ~flushOk)
    /\ UNCHANGED <<jobCtxCancellers, errors, worker, staging, now, fsPanicked,
                   chatVars, fileVars>>

\* cancel(): the context of the task the handle was made for is cancelled;
\* the handle of a task that has ended cancels nothing.
CancelJobCtx(wk, h) ==
    IF h \in Workers THEN [wk EXCEPT ![h].ctxDone = TRUE] ELSE wk

\* os.RemoveAll of a job's staging directory: a file the copier holds open
\* is unlinked, and what is written to it afterwards is lost.
Unlink(wk, jobID, removed) ==
    IF removed /\ wk["copying"].job = jobID /\ wk["copying"].pc \in {"check", "write"}
    THEN [wk EXCEPT !["copying"].unlinked = TRUE]
    ELSE wk

cancelOrDismissJob(jobID) ==
    /\ ~fsPanicked
    /\ IF jobID \in DOMAIN jobCtxCancellers
       THEN /\ worker' = Unlink(CancelJobCtx(worker, jobCtxCancellers[jobID]),
                                 jobID, jobID \in DOMAIN jobs)
            /\ jobCtxCancellers' = MapDel(jobCtxCancellers, jobID)
       ELSE /\ worker' = Unlink(worker, jobID, jobID \in DOMAIN jobs)
            /\ UNCHANGED jobCtxCancellers
    /\ jobs' = IF jobID \in DOMAIN jobs THEN MapDel(jobs, jobID) ELSE jobs
    /\ staging' = IF jobID \in DOMAIN jobs
                  THEN [staging EXCEPT ![jobID] = NoFiles]
                  ELSE staging
    /\ Spend(TRUE, FALSE)
    /\ UNCHANGED <<errors, sig, stateFile, now, fsPanicked, chatVars, fileVars>>

changeJobPhaseLocked(state, jobID, newPhase) ==
    IF jobID \in DOMAIN state
    THEN [state EXCEPT ![jobID].phase = newPhase]
    ELSE state

\* One turn of a worker's loop up to its task: a token is taken from the
\* signal channel, startWorkerTask claims a job in the eligible phase, and on
\* success the worker signals itself.
startWorkerTask(w) ==
    /\ ~fsPanicked
    /\ worker[w].pc = "wait"
    /\ sig[w]
    /\ IF \E j \in DOMAIN jobs : jobs[j].phase = EligiblePhase(w)
       THEN \E j \in DOMAIN jobs :
              /\ jobs[j].phase = EligiblePhase(w)
              /\ jobs' = changeJobPhaseLocked(jobs, j, WorkingPhase(w))
              /\ jobCtxCancellers' = MapPut(jobCtxCancellers, j, w)
              /\ sig' = signal(sig, w)
              /\ worker' = [worker EXCEPT ![w] =
                               [IdleWorker EXCEPT !.pc = "begin", !.job = j]]
       ELSE /\ sig' = [sig EXCEPT ![w] = FALSE]
            /\ UNCHANGED <<jobs, jobCtxCancellers, worker>>
    /\ UNCHANGED <<errors, stateFile, staging, now, fsPanicked, budget, chatVars, fileVars>>

\* The listing of a descriptor: every entry ToDo.
Listing == [e \in Entries |-> "ToDo"]

\* The DirentType of the listed entries, in the order of their sorted paths:
\* a directory, a regular file in it, a symlink in it, and so on (the last
\* entry of the sorted order may be of any kind; here it is a symlink).
DirentType(e) ==
    CASE e % 3 = 1 -> "dir"
      [] e % 3 = 2 -> "file"
      [] OTHER -> "symlink"

FileEntries == {e \in Entries : DirentType(e) = "file"}

\* An operation of a task fails because of a fault, or because the task's
\* context has been cancelled.
Outcome(w, ok) == Spend(FALSE, ~ok /\ ~worker[w].ctxDone)

\* doIndexing: the descriptor is read and listed; the listing fails, or the
\* manifest and BytesTotal are stored (unless the job is gone).
doIndexing ==
    /\ ~fsPanicked
    /\ worker["indexing"].pc = "begin"
    /\ \E ok \in BOOLEAN :
          /\ Outcome("indexing", ok)
          /\ worker' = [worker EXCEPT !["indexing"].pc = "finish",
                                      !["indexing"].err = ~ok]
          /\ jobs' = IF ok /\ worker["indexing"].job \in DOMAIN jobs
                     THEN [jobs EXCEPT ![worker["indexing"].job].manifest = Listing,
                                       ![worker["indexing"].job].bytesTotal =
                                            Cardinality(FileEntries) * FileChunks]
                     ELSE jobs
    /\ UNCHANGED <<jobCtxCancellers, errors, sig, stateFile, staging, now,
                   fsPanicked, chatVars, fileVars>>

\* The worker loop after doIndexing / doCopying / doZipping returned:
\* changeJobPhase and the next stage's signal, or setJobError; then
\* flushStateFile, and the loop goes back to its select.
NextStage(w) ==
    CASE w = "indexing" -> "copying"
      [] w = "copying" -> "zipping"
      [] w = "zipping" -> "zipping"

\* A setJobError whose nextRetry is the failure time itself.
setJobErrorNow(errs, jobID) == MapPut(errs, jobID, now)

setJobError(errs, jobID) == MapPut(errs, jobID, now + RetryDuration)

\* The handle of a task that has ended still sits in jobCtxCancellers, but
\* invoking it cancels a context nobody looks at any more.
EndTask(handles, w) ==
    [j \in DOMAIN handles |-> IF handles[j] = w THEN "ended" ELSE handles[j]]

workerFinish(w) ==
    /\ ~fsPanicked
    /\ worker[w].pc = "finish"
    /\ IF worker[w].err
       THEN /\ errors' = setJobError(errors, worker[w].job)
            /\ UNCHANGED <<jobs, sig>>
       ELSE /\ jobs' = changeJobPhaseLocked(jobs, worker[w].job, CompletedPhase(w))
            /\ sig' = IF w = "zipping" THEN sig ELSE signal(sig, NextStage(w))
            /\ UNCHANGED errors
    /\ \E ok \in BOOLEAN : flushStateFileLocked(jobs', ok) /\ Spend(FALSE, ~ok)
    /\ worker' = [worker EXCEPT ![w] = IdleWorker]
    /\ jobCtxCancellers' = EndTask(jobCtxCancellers, w)
    /\ UNCHANGED <<staging, now, fsPanicked, chatVars, fileVars>>

\* doCopying up to the entry loop: the descriptor and a copy of the manifest
\* are read (a missing job reads as the zero value), then the source is
\* looked up, which may fail.  An empty manifest makes doCopying return nil.
doCopyingRead ==
    /\ ~fsPanicked
    /\ worker["copying"].pc = "begin"
    /\ \E ok \in BOOLEAN :
          LET job == JobOrZero(worker["copying"].job)
          IN  /\ Outcome("copying", ok)
              /\ worker' = [worker EXCEPT
                     !["copying"].manifest = job.manifest,
                     !["copying"].i = 1,
                     !["copying"].err = ~ok,
                     !["copying"].pc = IF ~ok \/ job.manifest = EmptyMap
                                       THEN "finish" ELSE "mark"]
    /\ UNCHANGED <<jobs, jobCtxCancellers, errors, sig, stateFile, staging, now,
                   fsPanicked, chatVars, fileVars>>

\* updateManifest: the local manifest is written into the job's manifest and
\* the job is stored back; the write panics if the job's manifest is nil.
updateManifestPanics(jobID, manifest) ==
    manifest # EmptyMap /\ JobOrZero(jobID).manifest = EmptyMap

updateManifest(jobID, manifest) ==
    MapPut(jobs, jobID, [JobOrZero(jobID) EXCEPT !.manifest =
        [e \in DOMAIN manifest \cup DOMAIN @ |->
            IF e \in DOMAIN manifest THEN manifest[e] ELSE @[e]]])

\* Top of the entry loop: the entry is marked InProgress and the manifest is
\* pushed; the source's Lstat gives the entry's kind, and for a regular file
\* the destination's size gives the offset the copy starts from.
doCopyingMark ==
    /\ ~fsPanicked
    /\ worker["copying"].pc = "mark"
    /\ LET jobID == worker["copying"].job
           manifest == [worker["copying"].manifest EXCEPT
                            ![worker["copying"].i] = "InProgress"]
       IN  IF updateManifestPanics(jobID, manifest)
           THEN /\ fsPanicked' = TRUE
                /\ UNCHANGED <<jobs, worker>>
           ELSE /\ jobs' = updateManifest(jobID, manifest)
                /\ worker' = [worker EXCEPT
                       !["copying"].manifest = manifest,
                       !["copying"].chunk = staging[jobID][worker["copying"].i],
                       !["copying"].unlinked = FALSE,
                       !["copying"].pc =
                           CASE DirentType(worker["copying"].i) = "dir" -> "mkdir"
                             [] DirentType(worker["copying"].i) = "symlink" -> "symlink"
                             [] OTHER -> "check"]
                /\ UNCHANGED fsPanicked
    /\ UNCHANGED <<jobCtxCancellers, errors, sig, stateFile, staging, now, budget,
                   chatVars, fileVars>>

\* A directory entry: os.MkdirAll of the local path (an existing directory
\* is fine) and os.Chtimes; the entry is Complete.
doCopyingMkdir ==
    /\ ~fsPanicked
    /\ worker["copying"].pc = "mkdir"
    /\ staging' = [staging EXCEPT ![worker["copying"].job][worker["copying"].i] = 1]
    /\ worker' = [worker EXCEPT !["copying"].pc = "done"]
    /\ UNCHANGED <<jobs, jobCtxCancellers, errors, sig, stateFile, now, fsPanicked,
                   budget, chatVars, fileVars>>

\* A symlink entry: a link whose Stat fails is Skipped and the loop goes on
\* to the next entry without pushing the manifest; otherwise os.Symlink
\* creates the link, which fails if the local path exists already.
doCopyingSymlink ==
    /\ ~fsPanicked
    /\ worker["copying"].pc = "symlink"
    /\ LET w == worker["copying"]
       IN  \E resolves \in BOOLEAN :
              IF ~resolves
              THEN /\ worker' = [worker EXCEPT
                          !["copying"].manifest = [w.manifest EXCEPT ![w.i] = "Skipped"],
                          !["copying"].i = w.i + 1,
                          !["copying"].pc = IF w.i = NumEntries
                                            THEN "finish" ELSE "mark"]
                   /\ UNCHANGED staging
              ELSE IF staging[w.job][w.i] > 0
              THEN /\ worker' = [worker EXCEPT !["copying"].pc = "finish",
                                               !["copying"].err = TRUE]
                   /\ UNCHANGED staging
              ELSE /\ staging' = [staging EXCEPT ![w.job][w.i] = 1]
                   /\ worker' = [worker EXCEPT !["copying"].pc = "done"]
    /\ UNCHANGED <<jobs, jobCtxCancellers, errors, sig, stateFile, now, fsPanicked,
                   budget, chatVars, fileVars>>

\* ctxAwareCopy's select under copyFile: a cancelled context ends the task
\* with an error.
copyCheck ==
    /\ ~fsPanicked
    /\ worker["copying"].pc = "check"
    /\ worker' = IF worker["copying"].ctxDone
                 THEN [worker EXCEPT !["copying"].pc = "finish",
                                     !["copying"].err = TRUE]
                 ELSE [worker EXCEPT !["copying"].pc = "write"]
    /\ UNCHANGED <<jobs, jobCtxCancellers, errors, sig, stateFile, staging, now,
                   fsPanicked, budget, chatVars, fileVars>>

\* An operation of the task at hand fails (Lstat, Open, CopyN, Chtimes,
\* ...): an I/O error, or the error of a cancelled context.  Under doZipping
\* these are the operations of the walk before a file is streamed (Info,
\* CreateHeader, Open); an error of the streaming itself is zipStreamError.
workerIOError(w) ==
    /\ ~fsPanicked
    /\ worker[w].pc \in {"check", "write", "mkdir", "symlink"}
    /\ w = "zipping" => worker[w].pc = "check" /\ worker[w].chunk = 0
    /\ Outcome(w, FALSE)
    /\ worker' = [worker EXCEPT ![w].pc = "finish", ![w].err = TRUE]
    /\ UNCHANGED <<jobs, jobCtxCancellers, errors, sig, stateFile, staging, now,
                   fsPanicked, chatVars, fileVars>>

\* updateBytesCopied: the job is read (zero value if missing), its counter
\* is moved and the job is stored back.
updateBytesCopied(jobID, delta) ==
    MapPut(jobs, jobID, [JobOrZero(jobID) EXCEPT !.bytesCopied = @ + delta])

\* io.CopyN of one chunk into the staged file, then bytesUpdater.  The last
\* chunk returns io.EOF and ends the copy.
copyChunk ==
    /\ ~fsPanicked
    /\ worker["copying"].pc = "write"
    /\ LET w == worker["copying"]
       IN  /\ JobOrZero(w.job).bytesCopied < MaxBytes
           /\ IF w.chunk < FileChunks
              THEN /\ staging' = IF w.unlinked THEN staging
                                 ELSE [staging EXCEPT ![w.job][w.i] = w.chunk + 1]
                   /\ jobs' = updateBytesCopied(w.job, 1)
                   /\ worker' = [worker EXCEPT
                          !["copying"].chunk = w.chunk + 1,
                          !["copying"].pc = IF w.chunk + 1 = FileChunks
                                            THEN "done" ELSE "check"]
              ELSE /\ jobs' = updateBytesCopied(w.job, 0)
                   /\ worker' = [worker EXCEPT !["copying"].pc = "done"]
                   /\ UNCHANGED staging
    /\ UNCHANGED <<jobCtxCancellers, errors, sig, stateFile, now, fsPanicked, budget,
                   chatVars, fileVars>>

\* Bottom of the entry loop: the entry is Complete and the manifest is
\* pushed; after the last entry doCopying returns nil.
doCopyingDone ==
    /\ ~fsPanicked
    /\ worker["copying"].pc = "done"
    /\ LET jobID == worker["copying"].job
           manifest == [worker["copying"].manifest EXCEPT
                            ![worker["copying"].i] = "Complete"]
       IN  IF updateManifestPanics(jobID, manifest)
           THEN /\ fsPanicked' = TRUE
                /\ UNCHANGED <<jobs, worker>>
           ELSE /\ jobs' = updateManifest(jobID, manifest)
                /\ worker' = [worker EXCEPT
                       !["copying"].manifest = manifest,
                       !["copying"].i = @ + 1,
                       !["copying"].pc = IF worker["copying"].i = NumEntries
                                         THEN "finish" ELSE "mark"]
                /\ UNCHANGED fsPanicked
    /\ UNCHANGED <<jobCtxCancellers, errors, sig, stateFile, staging, now, budget,
                   chatVars, fileVars>>

\* The walk of the workspace moves on to the next staged regular file, or
\* ends; directories are passed over and a symlink is written in one piece.
ZipNext(w, from) ==
    IF \E e \in FileEntries : e >= from /\ staging[w.job][e] > 0
    THEN [w EXCEPT !.pc = "check", !.chunk = 0,
                   !.i = CHOOSE e \in FileEntries :
                            /\ e >= from /\ staging[w.job][e] > 0
                            /\ \A f \in FileEntries :
                                  f >= from /\ staging[w.job][f] > 0 => e <= f]
    ELSE [w EXCEPT !.pc = "close"]

\* doZipping up to the walk: the descriptor is read, BytesZipped is reset
\* (the job is read, zero value if missing, and stored back), and the zip
\* file is opened: with O_EXCL unless jobDesc.OverwriteZip, so that an
\* existing file refuses the open, as does the empty path of a zero-value
\* descriptor; with O_TRUNC otherwise.  The open may also fail on its own.
doZippingReset ==
    /\ ~fsPanicked
    /\ worker["zipping"].pc = "begin"
    /\ LET w == worker["zipping"]
           jobDesc == JobOrZero(w.job).desc
           refused == \/ jobDesc = ZeroJob.desc
                      \/ zipFile[w.job] # "none" /\ ~OverwriteZip(jobDesc)
       IN  /\ jobs' = MapPut(jobs, w.job,
                             [JobOrZero(w.job) EXCEPT !.bytesZipped = 0])
           /\ \E ok \in BOOLEAN :
                 /\ refused => ok
                 /\ Spend(FALSE, ~ok)
                 /\ worker' = [worker EXCEPT !["zipping"] =
                        IF ok /\ ~refused THEN ZipNext(w, 1)
                        ELSE [w EXCEPT !.pc = "finish", !.err = TRUE]]
                 /\ zipFile' = IF ok /\ ~refused
                               THEN [zipFile EXCEPT ![w.job] = "partial"]
                               ELSE zipFile
    /\ UNCHANGED <<jobCtxCancellers, errors, sig, stateFile, staging, now,
                   fsPanicked, chatVars, srcFile, dstFile, copy, conv,
                   listing>>

\* ctxAwareCopy's select under zipWriterAddDir: the error of a cancelled
\* context is dropped by the walk function, which goes on to the next file.
zipCheck ==
    /\ ~fsPanicked
    /\ worker["zipping"].pc = "check"
    /\ worker' = [worker EXCEPT !["zipping"] =
                     IF @.ctxDone THEN ZipNext(@, @.i + 1)
                     ELSE [@ EXCEPT !.pc = "write"]]
    /\ zipFile' = IF worker["zipping"].ctxDone
                  THEN [zipFile EXCEPT ![worker["zipping"].job] = "cut"]
                  ELSE zipFile
    /\ UNCHANGED <<jobs, jobCtxCancellers, errors, sig, stateFile, staging, now,
                   fsPanicked, budget, chatVars, srcFile, dstFile, copy, conv,
                   listing>>

\* io.CopyN fails in the middle of a file: ctxAwareCopy returns the error,
\* which zipWriterAddDir drops, and the walk goes on with the next file.
zipStreamError ==
    /\ ~fsPanicked
    /\ worker["zipping"].pc = "write"
    /\ Outcome("zipping", FALSE)
    /\ worker' = [worker EXCEPT !["zipping"] = ZipNext(@, @.i + 1)]
    /\ zipFile' = [zipFile EXCEPT ![worker["zipping"].job] = "cut"]
    /\ UNCHANGED <<jobs, jobCtxCancellers, errors, sig, stateFile, staging, now,
                   fsPanicked, chatVars, srcFile, dstFile, copy, conv,
                   listing>>

updateBytesZipped(jobID, delta) ==
    MapPut(jobs, jobID, [JobOrZero(jobID) EXCEPT !.bytesZipped = @ + delta])

\* io.CopyN of one chunk of a staged file into the zip, then bytesUpdater.
zipChunk ==
    /\ ~fsPanicked
    /\ worker["zipping"].pc = "write"
    /\ LET w == worker["zipping"]
       IN  IF w.chunk < staging[w.job][w.i]
           THEN /\ jobs' = updateBytesZipped(w.job, 1)
                /\ worker' = [worker EXCEPT !["zipping"] =
                       IF w.chunk + 1 = staging[w.job][w.i]
                       THEN ZipNext(w, w.i + 1)
                       ELSE [w EXCEPT !.chunk = w.chunk + 1, !.pc = "check"]]
           ELSE /\ jobs' = updateBytesZipped(w.job, 0)
                /\ worker' = [worker EXCEPT !["zipping"] = ZipNext(w, w.i + 1)]
    /\ UNCHANGED <<jobCtxCancellers, errors, sig, stateFile, staging, now,
                   fsPanicked, budget, chatVars, fileVars>>

\* End of doZipping: the zip is closed, which may fail; on success the
\* workspace is removed.  The closed file is an archive of the staging tree,
\* short of the bytes of every file whose streaming was cut.
doZippingClose ==
    /\ ~fsPanicked
    /\ worker["zipping"].pc = "close"
    /\ LET w == worker["zipping"]
       IN  \E ok \in BOOLEAN :
              /\ Spend(FALSE, ~ok)
              /\ worker' = Unlink([worker EXCEPT !["zipping"].pc = "finish",
                                                 !["zipping"].err = ~ok],
                                  w.job, ok)
              /\ staging' = IF ok THEN [staging EXCEPT ![w.job] = NoFiles]
                            ELSE staging
              /\ zipFile' = IF ok
                            THEN [zipFile EXCEPT ![w.job] =
                                     IF @ = "cut" THEN "short" ELSE "archive"]
                            ELSE zipFile
    /\ UNCHANGED <<jobs, jobCtxCancellers, errors, sig, stateFile, now,
                   fsPanicked, chatVars, srcFile, dstFile, copy, conv,
                   listing>>

InterruptedPhases == {"Indexing", "Copying", "Zipping"}

\* Variant: an interrupted copy keeps its phase.
ResetPhaseKeepCopying(phase) ==
    CASE phase = "Indexing" -> "Queued"
      [] phase = "Zipping" -> "Copied"
      [] OTHER -> phase

ResetPhase(phase) ==
    CASE phase = "Indexing" -> "Queued"
      [] phase = "Copying" -> "Indexed"
      [] phase = "Zipping" -> "Copied"
      [] OTHER -> phase

resetInterruptedPhaseLocked(state, jobID) ==
    [state EXCEPT ![jobID].phase = ResetPhase(@)]

\* Variant: the retry does not wait for nextRetry.
RetriedBeforeDue ==
    {j \in DOMAIN jobs : /\ j \in DOMAIN errors
                         /\ jobs[j].phase \in InterruptedPhases}

\* One tick of errorRetryWorker: every job whose retry time has come and
\* whose phase is an interrupted one is reset, its error entry is dropped
\* and the three workers are signalled.
Retried ==
    {j \in DOMAIN jobs : /\ j \in DOMAIN errors
                         /\ now >= errors[j]
                         /\ jobs[j].phase \in InterruptedPhases}

errorRetryWorker ==
    /\ ~fsPanicked
    /\ Retried # {}
    /\ jobs' = [j \in DOMAIN jobs |->
                  IF j \in Retried
                  THEN resetInterruptedPhaseLocked(jobs, j)[j]
                  ELSE jobs[j]]
    /\ errors' = [j \in DOMAIN errors \ Retried |-> errors[j]]
    /\ sig' = AllSignals
    /\ UNCHANGED <<jobCtxCancellers, worker, stateFile, staging, now,
                   fsPanicked, budget, chatVars, fileVars>>

\* time.Now() moves on by one archiveErrorRetryDuration.  Only the distance
\* between now and a nextRetry matters to the code, so once now has reached
\* MaxTime the origin of the clock is moved instead.
Tick ==
    /\ IF now < MaxTime
       THEN /\ now' = now + 1
            /\ UNCHANGED errors
       ELSE /\ now' = now
            /\ errors' = [j \in DOMAIN errors |->
                              IF errors[j] > 0 THEN errors[j] - 1 ELSE 0]
    /\ UNCHANGED <<jobs, jobCtxCancellers, sig, worker, stateFile,
                   staging, fsPanicked, budget, chatVars, fileVars>>

resetInterruptedPhasesLocked(state) ==
    [j \in DOMAIN state |-> [state[j] EXCEPT !.phase = ResetPhase(@)]]

\* newArchiveManager on a given state file, after the previous process is
\* gone: the state is loaded (a file that cannot be read is replaced by an
\* empty one), interrupted phases are reset, and start() launches the
\* workers and signals the three of them.
Launch(file, call, fault) ==
    /\ \E loadOk \in BOOLEAN :
          /\ jobs' = IF loadOk THEN resetInterruptedPhasesLocked(file)
                     ELSE EmptyMap
          /\ stateFile' = IF loadOk THEN file ELSE EmptyMap
          /\ Spend(call, fault \/ ~loadOk)
    /\ jobCtxCancellers' = EmptyMap
    /\ errors' = EmptyMap
    /\ sig' = AllSignals
    /\ worker' = [w \in Workers |-> IdleWorker]
    /\ fsPanicked' = FALSE
    /\ UNCHANGED <<staging, now, chatVars, fileVars>>

\* The process dies (a crash, or the panic of a worker) and is started again.
newArchiveManager == Launch(stateFile, FALSE, ~fsPanicked)

\* shutdown: the workers' context is cancelled and the state is flushed
\* under the shutdown context; the process then exits and is started again.
shutdown ==
    /\ ~fsPanicked
    /\ \E ok \in BOOLEAN : Launch(IF ok THEN jobs ELSE stateFile, TRUE, ~ok)

NextFS ==
    \/ \E j \in FSJobs, d \in Descs, ok \in BOOLEAN : startJob(j, d, ok)
    \/ \E j \in FSJobs : cancelOrDismissJob(j)
    \/ \E w \in Workers : startWorkerTask(w)
    \/ doIndexing
    \/ doCopyingRead
    \/ doCopyingMark
    \/ doCopyingMkdir
    \/ doCopyingSymlink
    \/ copyCheck
    \/ copyChunk
    \/ doCopyingDone
    \/ doZippingReset
    \/ zipCheck
    \/ zipChunk
    \/ zipStreamError
    \/ doZippingClose
    \/ \E w \in Workers : workerIOError(w)
    \/ \E w \in Workers : workerFinish(w)
    \/ errorRetryWorker
    \/ Tick
    \/ newArchiveManager
    \/ shutdown

\* ------------------------------------------------------------------ Spec
InitAll == Init /\ InitFS

Next ==
    \/ Start
    \/ Stop
    \/ StopInvoke
    \/ StopCollect
    \/ StopReturn
    \/ flushLoop
    \/ \E t \in {"start", "fg"} : resumeAllBgJobs(t)
    \/ AppForeground
    \/ AppBackground
    \/ monInvoke
    \/ monCloseCancelCh
    \/ monCollect
    \/ monReturn
    \/ OnDbNuke
    \/ Restart
    \/ \E j \in Jobs : ArchiveChat(j)
    \/ \E j \in Jobs : Pause(j)
    \/ pauseCloseCancelCh
    \/ PauseReturn
    \/ \E j \in Jobs, d \in BOOLEAN : Delete(j, d)
    \/ DeleteReturn
    \/ \E j \in Jobs : Resume(j)
    \/ \E e \in Execs : ArchiveChatGet(e)
    \/ \E e \in Execs : ArchiveChatEarlyErr(e)
    \/ \E e \in Execs : ArchiveChatRegister(e)
    \/ \E e \in Execs : archiveConv(e)
    \/ \E e \in Execs : checkpointConv(e)
    \/ \E e \in Execs : ArchiveChatWait(e)
    \/ \E e \in Execs : ArchiveChatDefer(e)
    \/ \E e \in Execs : ArchiveChatFinalSet(e)

Spec == InitAll /\ [][Next]_vars

SpecFS == InitAll /\ [][NextFS]_vars

\* The goroutines of the stage pipeline keep running: every worker that can
\* take a step eventually does, the retry worker's ticker keeps firing and
\* time passes.  Requests and faults are under no obligation.
FairFS ==
    /\ \A w \in Workers : WF_vars(startWorkerTask(w)) /\ WF_vars(workerFinish(w))
    /\ WF_vars(doIndexing)
    /\ WF_vars(doCopyingRead)
    /\ WF_vars(doCopyingMark)
    /\ WF_vars(doCopyingMkdir)
    /\ WF_vars(doCopyingSymlink)
    /\ WF_vars(copyCheck)
    /\ WF_vars(copyChunk)
    /\ WF_vars(doCopyingDone)
    /\ WF_vars(doZippingReset)
    /\ WF_vars(zipCheck)
    /\ WF_vars(zipChunk)
    /\ WF_vars(doZippingClose)
    /\ WF_vars(errorRetryWorker)
    /\ WF_vars(Tick)

LiveFS == SpecFS /\ FairFS

\* ------------------------------------------------------------------ claims
\* C1: in the chat archive registry at most one executor (one ArchiveChat
\* run) is active for a jobID at any instant.
ActiveExecs(jobID) ==
    {e \in Execs : exec[e].job = jobID /\ exec[e].pc \notin {"idle", "done"}}

C1_AtMostOneExecutor == \A j \in Jobs : Cardinality(ActiveExecs(j)) <= 1

\* C2: in the stage pipeline at most one of the indexing, copying and
\* zipping workers is executing a given job at any instant.
Executing(jobID) ==
    {w \in Workers : worker[w].pc # "wait" /\ worker[w].job = jobID}

C2_AtMostOneWorker == \A j \in FSJobs : Cardinality(Executing(j)) <= 1

\* C3: a jobID has a cancel-handle in the executor map if and only if the
\* job's phase is a running phase: Running for runningJobs (looked at between
\* registry calls), Indexing, Copying or Zipping for jobCtxCancellers.
C3_HandleIffRunning ==
    /\ (started /\ LockFree /\ mon.op = "none") =>
          \A j \in Jobs :
             j \in DOMAIN runningJobs <=>
                (j \in DOMAIN InitHist /\ InitHist[j].status = "Running")
    /\ \A j \in FSJobs :
          j \in DOMAIN jobCtxCancellers <=>
             (j \in DOMAIN jobs /\ jobs[j].phase \in InterruptedPhases)

\* C4: startJob with a jobID that is already in the history returns an error
\* and leaves the job record, the signals and the state file as they are;
\* otherwise it inserts the job with the given descriptor in phase Queued and
\* puts a token into the indexing signal.
C4_StartJob ==
    [][\A j \in FSJobs, d \in Descs, ok \in BOOLEAN :
          startJob(j, d, ok) =>
             IF j \in DOMAIN jobs
             THEN /\ startJobResult(j, ok) # "ok"
                  /\ UNCHANGED <<jobs, sig, stateFile, jobCtxCancellers, errors>>
             ELSE /\ jobs' = MapPut(jobs, j, [ZeroJob EXCEPT !.desc = d])
                  /\ jobs'[j].phase = "Queued"
                  /\ sig'["indexing"]
                  /\ (startJobResult(j, ok) = "ok") <=> ok]_vars

\* C4 witness: a job that is past Queued, with a manifest, is in the history
\* (a startJob under its ID is rejected here) and a second request was made.
C4_Witness ==
    \E j \in DOMAIN jobs :
       /\ jobs[j].phase = "Copying"
       /\ jobs[j].manifest # EmptyMap
       /\ budget.calls >= 2

\* C5: once cancelOrDismissJob has removed a jobID it stays absent from the
\* history until a startJob with that ID (or a restart of the process): no
\* other step inserts a record under an absent ID.
C5_StaysAbsent ==
    [][\A j \in FSJobs :
          (j \notin DOMAIN jobs /\ j \in DOMAIN jobs') =>
             \/ \E d \in Descs, ok \in BOOLEAN : startJob(j, d, ok)
             \/ newArchiveManager
             \/ shutdown]_vars

\* C6: Delete of a jobID that is not in the history has no side effects: no
\* cancel-handle is invoked or removed, and the dirty bit and the output
\* paths are unchanged, also when a handle is still registered under the ID.
C6_DeleteUnknown ==
    [][\A j \in Jobs, d \in BOOLEAN :
          (Delete(j, d) /\ j \notin DOMAIN InitHist) =>
             UNCHANGED <<exec, runningJobs, caller, dirty, outDir>>]_vars

\* C7: Pause stores the snapshot with status Paused, removes the handle and
\* sets the dirty bit; a status that is Paused changes only by a Delete or by
\* the registration of an executor that a Resume launched.
IsPaused(jobID) ==
    inited /\ jobID \in DOMAIN jobHistory /\ jobHistory[jobID].status = "Paused"

C7_PausedUntilResume ==
    [][/\ PauseReturn =>
             /\ jobHistory'[caller.job].status = "Paused"
             /\ caller.job \notin DOMAIN runningJobs'
             /\ dirty'
       /\ \A j \in Jobs :
             (IsPaused(j) /\ jobHistory' # jobHistory /\ inited') =>
                \/ /\ j \in DOMAIN jobHistory'
                   /\ jobHistory'[j].status = "Paused"
                \/ \E e \in Execs : exec[e].pc = "got" /\ exec[e].job = j
                                    /\ ArchiveChatRegister(e)
                \/ \E d \in BOOLEAN : Delete(j, d)
                \/ DeleteReturn]_vars

\* C8: Pause returns NotFound when the job has no record, an error that is
\* not NotFound when its status is not Running, and NotFound when it is
\* Running without a handle; in each of these cases no handle is invoked and
\* the history, the running map and the dirty bit are unchanged.
C8_PauseRejects ==
    [][\A j \in Jobs :
          Pause(j) =>
             /\ (started /\ j \notin DOMAIN InitHist)
                   => PauseResult(j) = "NotFound"
             /\ (started /\ j \in DOMAIN InitHist
                         /\ InitHist[j].status # "Running")
                   => PauseResult(j) = "Error"
             /\ (started /\ j \in DOMAIN InitHist
                         /\ InitHist[j].status = "Running"
                         /\ j \notin DOMAIN runningJobs)
                   => PauseResult(j) = "NotFound"
             /\ (\/ j \notin DOMAIN InitHist
                 \/ InitHist[j].status # "Running"
                 \/ j \notin DOMAIN runningJobs)
                   => /\ UNCHANGED <<exec, runningJobs, dirty, caller, edb>>
                      /\ InitHist' = InitHist]_vars

\* C8 witness: between calls, a job is Running in the history and has no
\* handle in the running map: Pause of it is rejected with NotFound here.
C8_Witness ==
    /\ started /\ inited /\ LockFree
    /\ \E j \in DOMAIN jobHistory :
          /\ jobHistory[j].status = "Running"
          /\ j \notin DOMAIN runningJobs

\* C9: no call that invoked a cancel-handle waits, holding the registry
\* mutex, for an executor that is itself waiting for the mutex in its
\* checkpoint Set or in its final Set.
C9_NoDeadlock ==
    ~(/\ caller.st = "wait"
      /\ exec[caller.e].pc \in {"checkpoint", "final"})

\* C10: an executor is launched for a job of the history only when its
\* status is Paused, BackgroundPaused or Error; Resume of an unknown jobID
\* returns NotFound and of any other status an error, and then launches
\* nothing and changes nothing; the launched executor's registration stores
\* its handle and the status Running.
Resumable == {"Paused", "BackgroundPaused", "Error"}

C10_ResumeLaunches ==
    [][/\ \A j \in Jobs :
             Resume(j) =>
                /\ exec' # exec =>
                      (j \in DOMAIN InitHist /\ InitHist[j].status \in Resumable)
                /\ (started /\ j \notin DOMAIN InitHist)
                      => ResumeResult(j) = "NotFound"
                /\ (started /\ j \in DOMAIN InitHist
                            /\ InitHist[j].status \notin Resumable)
                      => ResumeResult(j) = "Error"
                /\ ResumeResult(j) # "ok" =>
                      /\ UNCHANGED <<exec, runningJobs, dirty, caller, edb>>
                      /\ InitHist' = InitHist
       /\ \A e \in Execs :
             (ArchiveChatRegister(e) /\ started) =>
                /\ runningJobs'[exec[e].job] = e
                /\ jobHistory'[exec[e].job].status = "Running"]_vars

\* C10 witness: Resume has launched an executor for a job whose status in
\* the history is Paused; the executor has not read the job yet.
C10_Witness ==
    \E e \in Execs :
       /\ exec[e].pc = "launched"
       /\ inited /\ exec[e].job \in DOMAIN jobHistory
       /\ jobHistory[exec[e].job].status = "Paused"

\* C11: Resume of a job whose status is Complete is a no-op that succeeds: it
\* launches no executor, changes nothing in the history, the running map or
\* the dirty bit, and returns no error.
C11_ResumeDoneNoop ==
    [][\A j \in Jobs :
          (/\ Resume(j)
           /\ started
           /\ j \in DOMAIN InitHist
           /\ InitHist[j].status = "Complete") =>
             /\ UNCHANGED <<exec, runningJobs, dirty, caller, edb>>
             /\ InitHist' = InitHist
             /\ ResumeResult(j) \notin {"Error", "NotFound", "NotStarted"}]_vars

\* C12: an executor whose run ended because its context was cancelled by a
\* cancel-handle (Pause, Stop, app-background) stores no final status
\* (Complete or Error) and no error message; the job is recorded as Paused
\* or BackgroundPaused, without an error message.
C12_CancelNotError ==
    [][/\ \A e \in Execs : ArchiveChatFinalSet(e) => ~exec[e].ctxErr
       /\ PauseReturn =>
             /\ jobHistory'[caller.job].status = "Paused"
             /\ ~jobHistory'[caller.job].err
       /\ StopCollect =>
             /\ jobHistory'[caller.job].status = "BackgroundPaused"
             /\ ~jobHistory'[caller.job].err
       /\ monCollect =>
             /\ jobHistory'[mon.job].status = "BackgroundPaused"
             /\ ~jobHistory'[mon.job].err]_vars

PhaseRank(phase) ==
    CASE phase = "Queued" -> 0
      [] phase = "Indexing" -> 1
      [] phase = "Indexed" -> 2
      [] phase = "Copying" -> 3
      [] phase = "Copied" -> 4
      [] phase = "Zipping" -> 5
      [] phase = "Done" -> 6

\* C14: while a job stays in the history its phase never moves to an
\* earlier one, except by the retry worker for a job with an expired
\* error-table entry, and a job that is Done (Complete in the chat registry)
\* keeps that phase.  Steps in which the process is restarted and the
\* persisted state is loaded again are not counted.
C14_ForwardOnly ==
    [][/\ \A j \in FSJobs :
             (/\ j \in DOMAIN jobs
              /\ j \in DOMAIN jobs'
              /\ ~newArchiveManager
              /\ ~shutdown) =>
                /\ \/ PhaseRank(jobs'[j].phase) >= PhaseRank(jobs[j].phase)
                   \/ errorRetryWorker /\ j \in Retried
                /\ jobs[j].phase = "Done" => jobs'[j].phase = "Done"
       /\ \A j \in Jobs :
             (/\ j \in DOMAIN InitHist
              /\ InitHist[j].status = "Complete"
              /\ j \in DOMAIN InitHist'
              /\ ~Restart) =>
                InitHist'[j].status = "Complete"]_vars

\* C15: a job whose copying has failed on a regular file (it sits in
\* Copying with that entry InProgress, an error-table entry and no worker on
\* it) and whose source and disk fail no more is retried and eventually
\* reaches Done, unless it is cancelled meanwhile (or the process has
\* panicked, or the byte counter of the model is at its bound).
CopyFailed(j) ==
    /\ j \in DOMAIN jobs
    /\ jobs[j].phase = "Copying"
    /\ \E e \in FileEntries :
          e \in DOMAIN jobs[j].manifest /\ jobs[j].manifest[e] = "InProgress"
    /\ j \in DOMAIN errors
    /\ Executing(j) = {}
    /\ budget.faults = MaxFaults
    /\ ~fsPanicked

C15_RetryReachesDone ==
    \A j \in FSJobs :
       CopyFailed(j) ~>
          \/ j \notin DOMAIN jobs
          \/ jobs[j].phase = "Done"
          \/ fsPanicked
          \/ jobs[j].bytesCopied >= MaxBytes

\* The goroutines of the chat archive keep running: an executor that can
\* take a step eventually does, and so does a call that holds the mutex and
\* the monitor's background pause, and the delay of a scheduled resume
\* elapses.  The resume is not held back by the executors that are running
\* (the number of executor slots is a bound of the model only) and gets the
\* mutex when it is free again and again, hence its strong fairness.  Client
\* calls, app-state changes, the flush timer and failures are under no
\* obligation.
FairChat ==
    /\ \A e \in Execs :
          /\ WF_vars(ArchiveChatGet(e))
          /\ WF_vars(ArchiveChatRegister(e))
          /\ WF_vars(archiveConv(e))
          /\ WF_vars(checkpointConv(e))
          /\ WF_vars(ArchiveChatWait(e))
          /\ WF_vars(ArchiveChatDefer(e))
          /\ WF_vars(ArchiveChatFinalSet(e))
    /\ \A t \in {"start", "fg"} : SF_vars(resumeAllBgJobs(t))
    /\ WF_vars(pauseCloseCancelCh)
    /\ WF_vars(PauseReturn)
    /\ WF_vars(DeleteReturn)
    /\ WF_vars(StopInvoke)
    /\ WF_vars(StopCollect)
    /\ WF_vars(StopReturn)
    /\ WF_vars(monInvoke)
    /\ WF_vars(monCloseCancelCh)
    /\ WF_vars(monCollect)
    /\ WF_vars(monReturn)

LiveChat == Spec /\ FairChat

\* C16: a Stop of a started registry comes to its end: every handle has
\* been invoked, the running map is empty and the mutex is released (unless
\* a goroutine has panicked).
C16_StopReturns ==
    (caller.op = "Stop") ~>
       \/ caller.op = "none" /\ runningJobs = EmptyMap /\ ~started
       \/ panicked

\* ------------------------------------------------------------------ resume
\* A process that comes up over a history persisted by an earlier one: the
\* registry is newly constructed, and the db holds any history that can have
\* been flushed (a job in any status, with its checkpoints; a Complete job
\* has all its pages).
Statuses == {"Running", "Paused", "BackgroundPaused", "Error", "Complete"}

PersistedJobs ==
    {r \in [status : Statuses, cp : 0 .. NumPages, err : BOOLEAN] :
        /\ r.err = (r.status = "Error")
        /\ r.status = "Complete" => r.cp = NumPages}

PersistedHists ==
    UNION {[D -> PersistedJobs] : D \in SUBSET Jobs}

InitLoaded ==
    /\ started = FALSE
    /\ inited = FALSE
    /\ dirty = FALSE
    /\ \E h \in PersistedHists :
          /\ edb = [found |-> (h # EmptyMap), hist |-> h]
          /\ outDir = DOMAIN h
    /\ jobHistory = EmptyMap
    /\ runningJobs = EmptyMap
    /\ pending = {}
    /\ appState = "fg"
    /\ caller = Idle
    /\ mon = Idle
    /\ exec = [e \in Execs |-> FreeExec]
    /\ panicked = FALSE
    /\ InitFS

\* The session after Start in which no job is paused, cancelled or deleted
\* and the registry is not stopped.
NextLoaded ==
    \/ Start
    \/ flushLoop
    \/ \E t \in {"start", "fg"} : resumeAllBgJobs(t)
    \/ OnDbNuke
    \/ \E j \in Jobs : ArchiveChat(j)
    \/ \E j \in Jobs : Resume(j)
    \/ \E e \in Execs : ArchiveChatGet(e)
    \/ \E e \in Execs : ArchiveChatEarlyErr(e)
    \/ \E e \in Execs : ArchiveChatRegister(e)
    \/ \E e \in Execs : archiveConv(e)
    \/ \E e \in Execs : checkpointConv(e)
    \/ \E e \in Execs : ArchiveChatWait(e)
    \/ \E e \in Execs : ArchiveChatDefer(e)
    \/ \E e \in Execs : ArchiveChatFinalSet(e)

LiveLoaded == InitLoaded /\ [][NextLoaded]_vars /\ FairChat

\* C17: (1) resumeAllBgJobs on a started registry launches an executor for
\* exactly the jobs whose status in the loaded history is BackgroundPaused;
\* (2) after Start, with a BackgroundPaused job in the history, the delayed
\* resume comes to run and an executor exists for the job (or the job is
\* BackgroundPaused no more, or other launches have used up the executor
\* slots of the model); (3) a job whose executor has read it from the
\* registry reaches Complete unless the run fails.
C17_DelayedResume ==
    /\ [][\A t \in {"start", "fg"} :
             (resumeAllBgJobs(t) /\ started) =>
                \A j \in Jobs :
                   (\E e \in Execs : exec'[e] # exec[e] /\ exec'[e] = Launched(j))
                      <=> (j \in DOMAIN InitHist
                           /\ InitHist[j].status = "BackgroundPaused")]_vars
    /\ \A j \in Jobs :
          (/\ started
           /\ "start" \in pending
           /\ j \in DOMAIN InitHist
           /\ InitHist[j].status = "BackgroundPaused") ~>
              \/ \E e \in Execs : exec[e].job = j /\ exec[e].pc = "launched"
              \/ ~(j \in DOMAIN InitHist /\ InitHist[j].status = "BackgroundPaused")
              \/ Cardinality(FreeSlots) < Cardinality(BgPausedJobs(InitHist))
    /\ \A j \in Jobs :
          (\E e \in Execs : exec[e].job = j /\ exec[e].pc = "got") ~>
             \/ j \in DOMAIN InitHist /\ InitHist[j].status \in {"Complete", "Error"}
             \/ \E e \in Execs : exec[e].job = j /\ exec[e].failed

\* C17 witness: the db still holds the job as BackgroundPaused, as it was
\* loaded, the delayed resume has run, and the job is Complete in the
\* registry.
C17_Witness ==
    \E j \in Jobs :
       /\ started /\ inited /\ "start" \notin pending
       /\ edb.found /\ j \in DOMAIN edb.hist
       /\ edb.hist[j].status = "BackgroundPaused"
       /\ j \in DOMAIN jobHistory /\ jobHistory[j].status = "Complete"

\* C18: (1) when the manager is constructed, the jobs it holds are those of
\* the state file it loaded, each with the persisted fields and with the
\* phase Indexing turned to Queued, Copying to Indexed, Zipping to Copied and
\* any other phase kept, and no worker has a task yet; (2) so right after
\* start-up no job is in a working phase; (3) a job that the manager just
\* constructed holds in a phase a worker claims from (Queued, Indexed,
\* Copied), which an interrupted job is, comes to be owned by a worker in
\* the matching working phase, unless it is removed or the process dies
\* first.
JustStarted ==
    /\ ~fsPanicked
    /\ sig = AllSignals
    /\ \A w \in Workers : worker[w] = IdleWorker
    /\ errors = EmptyMap
    /\ jobCtxCancellers = EmptyMap

C18_StartupReset ==
    /\ [][(newArchiveManager \/ shutdown) =>
             /\ DOMAIN jobs' = DOMAIN stateFile'
             /\ \A j \in DOMAIN stateFile' :
                   jobs'[j] = [stateFile'[j] EXCEPT !.phase =
                                  CASE @ = "Indexing" -> "Queued"
                                    [] @ = "Copying" -> "Indexed"
                                    [] @ = "Zipping" -> "Copied"
                                    [] OTHER -> @]
             /\ \A j \in DOMAIN jobs' :
                   jobs'[j].phase \notin {"Indexing", "Copying", "Zipping"}
             /\ \A w \in Workers : worker'[w].pc = "wait"]_vars
    /\ \A j \in FSJobs :
          (/\ JustStarted
           /\ j \in DOMAIN jobs
           /\ jobs[j].phase \in {"Queued", "Indexed", "Copied"}) ~>
             \/ j \notin DOMAIN jobs
             \/ fsPanicked
             \/ \E w \in Workers :
                   /\ jobs[j].phase = WorkingPhase(w)
                   /\ worker[w].job = j /\ worker[w].pc # "wait"

\* C18 witness: the state file holds a job in a working phase, and the
\* manager constructed over it holds the job in the phase before, with no
\* error entry and every worker still waiting for its first signal.
C18_Witness ==
    \E j \in DOMAIN jobs :
       /\ j \in DOMAIN stateFile
       /\ stateFile[j].phase = "Copying"
       /\ jobs[j].phase = "Indexed"
       /\ JustStarted

\* C19: once cancelOrDismissJob has cancelled the copier's task and removed
\* the job's staging path, no step makes a file, a directory or a symlink
\* under that path while the cancelled task is still the copier's.
C19_NoArtifactsAfterCancel ==
    [][\A j \in FSJobs :
          (/\ worker["copying"].job = j
           /\ worker["copying"].pc # "wait"
           /\ worker["copying"].ctxDone
           /\ staging[j] = NoFiles
           /\ worker'["copying"].job = j) =>
              staging'[j] = NoFiles]_vars

\* ------------------------------------------------------------------ copyFile
\* One regular file entry of doCopying: the Lstat of the local path, copyFile
\* and the recording of the sum, over every source content and every file
\* found at the local path.
MaxLen == 3
\* the 64*1024 bytes of one io.CopyN
ChunkLen == 2
MaxCrashes == 2

Bytes == {0, 1}

Contents(n) == UNION {[1 .. k -> Bytes] : k \in 0 .. n}

\* hash.Hash.Write(p) on a digest in state h.
RECURSIVE sha256Write(_, _)
sha256Write(h, p) ==
    IF p = <<>> THEN h ELSE sha256Write(2 * h + Head(p), Tail(p))

\* io.Copy of a whole file into a new hasher, and its Sum.
Sha256(b) == sha256Write(sha256New, b)

\* Variant: the sums of source and destination are not compared.
bytesEqualAlways(a, b) == TRUE

\* bytes.Equal
bytesEqual(a, b) == a = b

\* What one io.CopyN(to, from, 64*1024) reads from the source at offset off:
\* up to ChunkLen bytes, none at or beyond the end.
CopyN(off) ==
    IF off >= Len(srcFile) THEN <<>>
    ELSE SubSeq(srcFile, off + 1,
                IF off + ChunkLen < Len(srcFile) THEN off + ChunkLen
                ELSE Len(srcFile))

InitCopyFile ==
    /\ Init
    /\ InitManager
    /\ srcFile \in Contents(MaxLen)
    /\ dstFile \in {NoFile} \cup {File(b) : b \in Contents(MaxLen + 1)}
    /\ copy = IdleCopy
    /\ zipFile = [j \in FSJobs |-> "none"]
    /\ conv = NewConv
    /\ listing = [pc |-> "idle", hist |-> <<>>, res |-> <<>>]

\* copyFileFromBeginning up to its copy loop: the source is opened, the
\* destination is opened with O_CREATE|O_TRUNC, the tee reader starts a new
\* digest.
copyFileFromBeginning(c) ==
    /\ dstFile' = File(<<>>)
    /\ copy' = [c EXCEPT !.pc = "copyB", !.off = 0, !.h = sha256New]

\* doCopying's Lstat of the local path and copyFile's dispatch: seek is the
\* size of an existing destination.  With seek = 0 the copy starts from the
\* beginning; otherwise copyFilePickupPrevious seeks the source to seek and
\* opens the destination with O_APPEND.
doCopyingLstat ==
    /\ copy.pc = "lstat"
    /\ LET seek == IF dstFile.exists THEN Len(dstFile.bytes) ELSE 0
       IN  IF seek = 0
           THEN copyFileFromBeginning(copy)
           ELSE /\ copy' = [copy EXCEPT !.pc = "copyP", !.off = seek]
                /\ UNCHANGED dstFile
    /\ UNCHANGED <<srcFile, zipFile, conv, listing, chatVars, fsVars>>

\* One turn of ctxAwareCopy under copyFileFromBeginning: the chunk goes to
\* the destination and through the tee reader's digest, bytesCopiedUpdater
\* adds its length; a short chunk is the end of the source, and the tee
\* reader's sum is returned and recorded in the entry.
copyFromBeginningChunk ==
    /\ copy.pc = "copyB"
    /\ LET p == CopyN(copy.off)
           h == sha256Write(copy.h, p)
       IN  /\ dstFile' = File(dstFile.bytes \o p)
           /\ copy' = [copy EXCEPT
                  !.off = @ + Len(p),
                  !.h = h,
                  !.bytes = @ + Len(p),
                  !.pc = IF Len(p) < ChunkLen THEN "complete" ELSE "copyB",
                  !.sha = IF Len(p) < ChunkLen THEN h ELSE @]
    /\ UNCHANGED <<srcFile, zipFile, conv, listing, chatVars, fsVars>>

\* One turn of ctxAwareCopy under copyFilePickupPrevious: the chunk is
\* appended to the destination.
copyPickupChunk ==
    /\ copy.pc = "copyP"
    /\ LET p == CopyN(copy.off)
       IN  /\ dstFile' = File(dstFile.bytes \o p)
           /\ copy' = [copy EXCEPT
                  !.off = @ + Len(p),
                  !.bytes = @ + Len(p),
                  !.pc = IF Len(p) < ChunkLen THEN "verify" ELSE "copyP"]
    /\ UNCHANGED <<srcFile, zipFile, conv, listing, chatVars, fsVars>>

\* copyFilePickupPrevious after its copy: source and destination are read
\* in full and their sums compared; equal sums are returned and recorded,
\* otherwise the source's size is taken off the bytes copied and the file is
\* copied from the beginning.
copyPickupVerify ==
    /\ copy.pc = "verify"
    /\ LET srcSHA256Sum == Sha256(srcFile)
           dstSHA256Sum == Sha256(dstFile.bytes)
       IN  IF bytesEqual(srcSHA256Sum, dstSHA256Sum)
           THEN /\ copy' = [copy EXCEPT !.pc = "complete", !.sha = srcSHA256Sum]
                /\ UNCHANGED dstFile
           ELSE copyFileFromBeginning([copy EXCEPT !.bytes = @ - Len(srcFile)])
    /\ UNCHANGED <<srcFile, zipFile, conv, listing, chatVars, fsVars>>

\* The copy is interrupted (the process dies, the context is cancelled or
\* an operation fails), possibly with a part of the chunk in flight written,
\* and a later run of doCopying comes to the entry again.
copyInterrupted ==
    /\ copy.pc \in {"copyB", "copyP", "verify"}
    /\ copy.crashes < MaxCrashes
    /\ \E k \in 0 .. ChunkLen - 1 :
          /\ k = 0 \/ (copy.pc # "verify" /\ k < Len(CopyN(copy.off)))
          /\ dstFile' = File(dstFile.bytes \o SubSeq(CopyN(copy.off), 1, k))
    /\ copy' = [copy EXCEPT !.pc = "lstat", !.off = 0, !.h = sha256New,
                            !.crashes = @ + 1]
    /\ UNCHANGED <<srcFile, zipFile, conv, listing, chatVars, fsVars>>

\* A later run of doCopying (after a retry or a restart of the job) walks
\* the manifest again and comes to the entry it had completed.
doCopyingAgain ==
    /\ copy.pc = "complete"
    /\ copy.crashes < MaxCrashes
    /\ copy' = [copy EXCEPT !.pc = "lstat", !.off = 0, !.h = sha256New,
                            !.crashes = @ + 1]
    /\ UNCHANGED <<srcFile, dstFile, zipFile, conv, listing, chatVars,
                   fsVars>>

NextCopyFile ==
    \/ doCopyingLstat
    \/ copyFromBeginningChunk
    \/ copyPickupChunk
    \/ copyPickupVerify
    \/ copyInterrupted
    \/ doCopyingAgain

SpecCopyFile == InitCopyFile /\ [][NextCopyFile]_vars

\* C20: whenever copyFile has returned a sum and the entry is Complete, the
\* destination exists, its bytes are the source's, and the recorded sum is
\* the SHA-256 of the destination: whatever file was found at the local
\* path and wherever earlier runs were interrupted.
C20_CopyRestoresSource ==
    copy.pc = "complete" =>
       /\ dstFile.exists
       /\ dstFile.bytes = srcFile
       /\ copy.sha = Sha256(dstFile.bytes)

\* C20 witness: a source of the greatest length is Complete after the
\* greatest number of interruptions.
C20_Witness ==
    /\ copy.pc = "complete"
    /\ copy.crashes = MaxCrashes
    /\ Len(srcFile) = MaxLen
    /\ dstFile.bytes = srcFile

\* ------------------------------------------------------------------ packaging
\* A job that is Copied, with its staging tree in place, as the zipping
\* worker finds it: for each value of OverwriteZip, and with or without a
\* file already at the job's ZipFilePath.
InitZip ==
    /\ Init
    /\ \E d \in 1 .. 2, z \in {"none", "old"} :
          /\ jobs = [j \in FSJobs |->
                        [ZeroJob EXCEPT !.desc = d, !.phase = "Copied",
                            !.manifest = [e \in Entries |-> "Complete"],
                            !.bytesTotal = Cardinality(FileEntries) * FileChunks,
                            !.bytesCopied = Cardinality(FileEntries) * FileChunks]]
          /\ zipFile = [j \in FSJobs |-> z]
    /\ stateFile = jobs
    /\ staging = [j \in FSJobs |->
                     [e \in Entries |-> IF e \in FileEntries THEN FileChunks ELSE 1]]
    /\ jobCtxCancellers = EmptyMap
    /\ errors = EmptyMap
    /\ sig = AllSignals
    /\ worker = [w \in Workers |-> IdleWorker]
    /\ now = 0
    /\ budget = [calls |-> 0, faults |-> 0]
    /\ fsPanicked = FALSE
    /\ srcFile = <<>>
    /\ dstFile = NoFile
    /\ copy = IdleCopy
    /\ conv = NewConv
    /\ listing = [pc |-> "idle", hist |-> <<>>, res |-> <<>>]

\* The zipping worker, the retry worker and a client's cancel.
NextZip ==
    \/ startWorkerTask("zipping")
    \/ doZippingReset
    \/ zipCheck
    \/ zipChunk
    \/ zipStreamError
    \/ doZippingClose
    \/ workerIOError("zipping")
    \/ workerFinish("zipping")
    \/ errorRetryWorker
    \/ Tick
    \/ \E j \in FSJobs : cancelOrDismissJob(j)

\* The zipping worker, the retry worker's ticker and the clock keep going;
\* cancels and failures are under no obligation.
LiveZip ==
    /\ InitZip
    /\ [][NextZip]_vars
    /\ WF_vars(startWorkerTask("zipping"))
    /\ WF_vars(workerFinish("zipping"))
    /\ WF_vars(doZippingReset)
    /\ WF_vars(zipCheck)
    /\ WF_vars(zipChunk)
    /\ WF_vars(doZippingClose)
    /\ WF_vars(errorRetryWorker)
    /\ WF_vars(Tick)

\* C21: (1) when doZipping comes to open the archive of a job without
\* OverwriteZip and a file exists at the path, the file is left as it is
\* and the attempt ends with an error; (2) an attempt that ends with an
\* error does not make the job Done; (3) with OverwriteZip the open
\* truncates the existing file (unless the open fails on its own), and what
\* the attempt closes in its place is the archive it wrote.
C21_ExclusiveCreate ==
    [][/\ doZippingReset =>
             LET j == worker["zipping"].job
             IN  j \in DOMAIN jobs /\ zipFile[j] # "none" =>
                    IF jobs[j].desc % 2 = 0
                    THEN \/ zipFile'[j] = "partial"
                         \/ zipFile'[j] = zipFile[j] /\ worker'["zipping"].err
                    ELSE /\ zipFile'[j] = zipFile[j]
                         /\ worker'["zipping"].pc = "finish"
                         /\ worker'["zipping"].err
       /\ (workerFinish("zipping") /\ worker["zipping"].err) =>
             \A j \in DOMAIN jobs' :
                jobs'[j].phase = "Done" => j \in DOMAIN jobs /\ jobs[j].phase = "Done"
       /\ doZippingClose =>
             zipFile'[worker["zipping"].job] \in {"partial", "cut", "archive", "short"}
       /\ \A j \in FSJobs : zipFile[j] = "old" /\ zipFile'[j] # "old" =>
             /\ doZippingReset
             /\ JobOrZero(j).desc % 2 = 0]_vars

\* C21 witness: the job without OverwriteZip has failed on the file that
\* was at its path, which is still there, and the job is still Zipping.
C21_Witness ==
    \E j \in DOMAIN jobs :
       /\ jobs[j].desc % 2 = 1
       /\ zipFile[j] = "old"
       /\ jobs[j].phase = "Zipping"
       /\ j \in DOMAIN errors
       /\ worker["zipping"].pc = "wait"

\* C22: a job whose packaging attempt has failed part-way (it is Zipping
\* with an error entry, and the attempt's unfinished archive is at the path)
\* comes to be Done, unless it is cancelled or the process dies.
C22_RetryRepackages ==
    \A j \in FSJobs :
       (/\ j \in DOMAIN jobs
        /\ jobs[j].phase = "Zipping"
        /\ j \in DOMAIN errors
        /\ zipFile[j] \in {"partial", "cut"}) ~>
          \/ j \notin DOMAIN jobs
          \/ jobs[j].phase = "Done"
          \/ fsPanicked

\* C23: (1) the zipping worker makes a job Done only when the archive it
\* has closed holds every file of the staging tree in full; (2) doZipping
\* removes the staging tree only then; (3) once the streaming of a file
\* was cut (by an error of the copy or by the cancelled context) the
\* attempt ends with an error.
C23_DoneOnlyIfComplete ==
    [][/\ \A j \in FSJobs :
             (/\ workerFinish("zipping")
              /\ worker["zipping"].job = j
              /\ j \in DOMAIN jobs' /\ jobs'[j].phase = "Done"
              /\ ~(j \in DOMAIN jobs /\ jobs[j].phase = "Done")) =>
                 zipFile[j] = "archive"
       /\ doZippingClose =>
             LET j == worker["zipping"].job
             IN  /\ zipFile[j] = "cut" => worker'["zipping"].err
                 /\ staging'[j] # staging[j] => zipFile'[j] = "archive"]_vars


\* ---------------------------------------------------------------------
\* One conversation of a chat archive job: archiveConv and checkpointConv
\* on chat.txt.  A page of the thread is PageLen bytes, the first page
\* rendered with the headline in front of it; a hole (a byte that no
\* write produced) is -1.

NumConvPages == 2
PageLen == 2
MaxConvCrashes == 1

\* f.Truncate(n): cut, or extend with a hole.
Truncate(f, n) ==
    IF n <= Len(f) THEN SubSeq(f, 1, n)
    ELSE f \o [i \in 1 .. n - Len(f) |-> -1]

\* A write of bs by a descriptor at position pos.
WriteAt(f, pos, bs) ==
    SubSeq(Truncate(f, pos) \o bs, 1, pos + Len(bs))
        \o SubSeq(f, pos + Len(bs) + 1, Len(f))

\* A run of ArchiveChat leaves: its exit defer stores the status, and Set
\* deletes the job's handle.
archiveConvReturn(a, status) ==
    [conv EXCEPT !.run[a].pc = "idle", !.status = status, !.reg = 0]

\* ArchiveChat: Set(ctx, pause, jobInfo) with the status RUNNING.
archiveConvRegister(a) ==
    /\ conv.run[a].pc = "launched"
    /\ conv' = [conv EXCEPT !.run[a].pc = "open", !.status = "Running",
                            !.reg = a]
    /\ UNCHANGED <<srcFile, dstFile, copy, zipFile, listing, chatVars,
                   fsVars>>

\* archiveConv up to the loop: the checkpoint of the job, OpenFile,
\* Truncate(cp.Offset), Seek(cp.Offset, 0), firstPage.
archiveConvOpen(a) ==
    /\ conv.run[a].pc = "open"
    /\ conv' = [conv EXCEPT
                    !.file = Truncate(@, conv.cp.offset),
                    !.run[a] = [pc |-> "pull", cp |-> conv.cp,
                                pos |-> conv.cp.offset,
                                first |-> conv.cp.offset = 0]]
    /\ UNCHANGED <<srcFile, dstFile, copy, zipFile, listing, chatVars,
                   fsVars>>

\* The loop condition and Pull: a checkpoint with Last ends the run with
\* no error; Pull returns the next page or an error (of the source, or of
\* the context a sibling's error cancelled).
archiveConvPull(a) ==
    /\ conv.run[a].pc = "pull"
    /\ IF conv.run[a].cp.last
       THEN conv' = archiveConvReturn(a, "Complete")
       ELSE \E ok \in BOOLEAN :
                conv' = IF ok THEN [conv EXCEPT !.run[a].pc = "render"]
                        ELSE archiveConvReturn(a, "Error")
    /\ UNCHANGED <<srcFile, dstFile, copy, zipFile, listing, chatVars,
                   fsVars>>

\* RenderToWriter of the page after the cursor, the headline first when
\* firstPage; then cp.Pagination = *thread.Pagination.  A write error
\* leaves a part of the page and ends the run.
archiveConvRender(a) ==
    /\ conv.run[a].pc = "render"
    /\ LET r == conv.run[a]
           page == r.cp.cursor + 1
           bs == (IF r.first THEN <<0>> ELSE <<>>)
                     \o [i \in 1 .. PageLen |-> page]
       IN \E n \in {Len(bs) - 1, Len(bs)} :
            conv' =
              IF n = Len(bs)
              THEN [conv EXCEPT
                       !.file = WriteAt(@, r.pos, bs),
                       !.run[a] = [pc |-> "checkpoint",
                                   cp |-> [cursor |-> page,
                                           offset |-> r.cp.offset,
                                           last |-> page = NumConvPages],
                                   pos |-> r.pos + n, first |-> FALSE]]
              ELSE [archiveConvReturn(a, "Error") EXCEPT
                       !.file = WriteAt(@, r.pos, SubSeq(bs, 1, n))]
    /\ UNCHANGED <<srcFile, dstFile, copy, zipFile, listing, chatVars,
                   fsVars>>

\* checkpointConv: f.Sync, cp.Offset = stat.Size(), the checkpoint stored
\* in the job, Set(ctx, nil, *job) with the run's status RUNNING.  An
\* error of Sync or Stat is logged and the loop goes on.
checkpointConvFile(a) ==
    /\ conv.run[a].pc = "checkpoint"
    /\ \E ok \in BOOLEAN :
        conv' = IF ok
                THEN [conv EXCEPT
                         !.cp = [conv.run[a].cp EXCEPT
                                    !.offset = Len(conv.file)],
                         !.status = "Running",
                         !.run[a].pc = "pull"]
                ELSE [conv EXCEPT !.run[a].pc = "pull"]
    /\ UNCHANGED <<srcFile, dstFile, copy, zipFile, listing, chatVars,
                   fsVars>>

\* Pause: the handle of the registered run cancels its context and waits
\* for it; its Pull returns the context's error.
archiveConvPause ==
    /\ conv.status = "Running"
    /\ conv.reg # 0
    /\ conv.run[conv.reg].pc = "pull"
    /\ conv' = archiveConvReturn(conv.reg, "Paused")
    /\ UNCHANGED <<srcFile, dstFile, copy, zipFile, listing, chatVars,
                   fsVars>>

\* Resume of a paused or failed job launches a run; ArchiveChat called
\* for a job that the history does not have launches one too.
archiveConvResume(a) ==
    /\ conv.run[a].pc = "idle"
    /\ \/ conv.status \in {"Paused", "Error"}
       \/ conv.status = "None" /\ \A b \in 1 .. 2 : conv.run[b].pc = "idle"
    /\ conv' = [conv EXCEPT !.run[a].pc = "launched"]
    /\ UNCHANGED <<srcFile, dstFile, copy, zipFile, listing, chatVars,
                   fsVars>>

\* flushLocked writes the history, the job's status and checkpoint in it.
archiveConvFlush ==
    /\ conv.db # [cp |-> conv.cp, status |-> conv.status]
    /\ conv' = [conv EXCEPT !.db = [cp |-> conv.cp, status |-> conv.status]]
    /\ UNCHANGED <<srcFile, dstFile, copy, zipFile, listing, chatVars,
                   fsVars>>

\* The process dies and a new one reads the history; chat.txt is what the
\* runs had written.
archiveConvCrash ==
    /\ conv.crashes < MaxConvCrashes
    /\ conv' = [NewConv EXCEPT !.file = conv.file, !.cp = conv.db.cp,
                               !.status = conv.db.status, !.db = conv.db,
                               !.run[1].pc = "idle",
                               !.crashes = conv.crashes + 1]
    /\ UNCHANGED <<srcFile, dstFile, copy, zipFile, listing, chatVars,
                   fsVars>>

NextConv ==
    \/ \E a \in 1 .. 2 :
          \/ archiveConvRegister(a)
          \/ archiveConvOpen(a)
          \/ archiveConvPull(a)
          \/ archiveConvRender(a)
          \/ checkpointConvFile(a)
          \/ archiveConvResume(a)
    \/ archiveConvPause
    \/ archiveConvFlush
    \/ archiveConvCrash

SpecConv == InitAll /\ [][NextConv]_vars

\* C24: the checkpoint of the job and the one in the db describe a page
\* boundary (the byte offset after the last page of the cursor); the file
\* of a Complete job is the headline and every page once, in order; a run
\* starts by cutting the file to the checkpoint's offset and goes on from
\* its cursor; no page is pulled for a checkpoint with last.
C24_ExactlyOnce ==
    /\ [](LET Boundary(k) == IF k = 0 THEN 0 ELSE 1 + k * PageLen
              Whole == <<0>> \o [i \in 1 .. NumConvPages * PageLen |->
                                    (i + PageLen - 1) \div PageLen]
          IN /\ conv.cp.offset = Boundary(conv.cp.cursor)
             /\ conv.db.cp.offset = Boundary(conv.db.cp.cursor)
             /\ conv.status = "Complete" => conv.file = Whole)
    /\ [][\A a \in 1 .. 2 :
            /\ conv.run[a].pc = "open" /\ conv'.run[a].pc = "pull"
                 => /\ Len(conv'.file) = conv.cp.offset
                    /\ conv'.run[a].cp.cursor = conv.cp.cursor
            /\ conv'.run[a].pc = "render" /\ conv.run[a].pc # "render"
                 => ~conv.cp.last]_vars


\* C25: after OnDbNuke on a started registry the history that List and Get
\* work on is empty, and as long as no handler has read the db again no
\* flush makes the db hold a job.
C25_NukeForgets ==
    /\ [][(OnDbNuke /\ started) => InitHist' = EmptyMap]_vars
    /\ [][(started /\ ~inited /\ ~edb.found)
             => (edb'.found => edb'.hist = EmptyMap)]_vars


\* C26: a flush that writes leaves in the db the history that is in memory,
\* which is what initLocked of a new process reads; and whenever no handler
\* holds the mutex and nothing is dirty, the history the db holds is the
\* one in memory, so that a flush that finds nothing dirty followed by a
\* load yields the history in memory as well.
C26_FlushThenLoad ==
    /\ [][(dirty /\ ~dirty' /\ ~Restart)
             => edb'.found /\ edb'.hist = jobHistory']_vars
    /\ [](LockFree /\ inited /\ ~dirty /\ edb.found
             => jobHistory = edb.hist)


\* ---------------------------------------------------------------------
\* List: the jobs of the history in the order of the map's range, then
\* sort.Sort(ByJobStartedAt(res.Jobs)).

NumListJobs == 3
MaxStartedAt == 1

\* Variant: StartedAt alone decides.
LessByStartedAtOnly(x, y) == x.startedAt < y.startedAt

\* ByJobStartedAt.Less on two jobs.
Less(x, y) ==
    IF x.startedAt = y.startedAt THEN x.jobID < y.jobID
    ELSE x.startedAt < y.startedAt

\* sort.Sort on a slice this short is the insertion sort: each element
\* moves left while it is Less than the one before it.
RECURSIVE sortSort(_)
sortSort(s) ==
    IF Len(s) <= 1 THEN s
    ELSE LET t == sortSort(SubSeq(s, 1, Len(s) - 1))
             x == s[Len(s)]
             k == Cardinality({i \in 1 .. Len(t) :
                     \A j \in i .. Len(t) : Less(x, t[j])})
         IN SubSeq(t, 1, Len(t) - k) \o <<x>>
                \o SubSeq(t, Len(t) - k + 1, Len(t))

\* List is called on a history: jobID -> StartedAt.
List(hist) ==
    /\ listing.pc = "idle"
    /\ listing' = [pc |-> "range", hist |-> hist, res |-> <<>>]
    /\ UNCHANGED <<srcFile, dstFile, copy, zipFile, conv, chatVars, fsVars>>

\* One iteration of the range over the map, in the order the map gives.
ListRange(j) ==
    /\ listing.pc = "range"
    /\ j \in DOMAIN listing.hist
    /\ \A i \in 1 .. Len(listing.res) : listing.res[i].jobID # j
    /\ listing' = [listing EXCEPT
                      !.res = Append(@, [jobID |-> j,
                                         startedAt |-> listing.hist[j]])]
    /\ UNCHANGED <<srcFile, dstFile, copy, zipFile, conv, chatVars, fsVars>>

ListSort ==
    /\ listing.pc = "range"
    /\ Len(listing.res) = Cardinality(DOMAIN listing.hist)
    /\ listing' = [listing EXCEPT !.pc = "idle", !.res = sortSort(@)]
    /\ UNCHANGED <<srcFile, dstFile, copy, zipFile, conv, chatVars, fsVars>>

NextList ==
    \/ \E S \in SUBSET (1 .. NumListJobs) :
          \E hist \in [S -> 0 .. MaxStartedAt] : List(hist)
    \/ \E j \in 1 .. NumListJobs : ListRange(j)
    \/ ListSort

SpecList == InitAll /\ [][NextList]_vars

\* C27: what List returns has every job of the history once, ordered by
\* StartedAt and, for equal StartedAt, by jobID; so it is the same for
\* every order of the range.
C27_ListOrder ==
    listing.pc = "idle" =>
        /\ Len(listing.res) = Cardinality(DOMAIN listing.hist)
        /\ \A j \in DOMAIN listing.hist :
              \E i \in 1 .. Len(listing.res) :
                 listing.res[i] = [jobID |-> j, startedAt |-> listing.hist[j]]
        /\ \A i, k \in 1 .. Len(listing.res) :
              i < k => \/ listing.res[i].startedAt < listing.res[k].startedAt
                       \/ /\ listing.res[i].startedAt = listing.res[k].startedAt
                          /\ listing.res[i].jobID < listing.res[k].jobID

\* A List of three jobs, two of them with the same StartedAt and the job
\* with the least jobID last.
C27_Witness ==
    /\ listing.pc = "idle"
    /\ Len(listing.res) = 3
    /\ listing.res[1].startedAt = listing.res[2].startedAt
    /\ listing.res[3].jobID = 1


\* C28: a job in an eligible phase is eventually claimed by the worker of
\* that stage (or is removed), whatever pulses were dropped; and every job
\* eventually is Done, unless it is removed or an attempt on it failed.
C28_NoLostWakeup ==
    \A j \in FSJobs :
       /\ (/\ j \in DOMAIN jobs
           /\ jobs[j].phase \in {"Queued", "Indexed", "Copied"}
           /\ ~fsPanicked) ~>
             \/ j \notin DOMAIN jobs
             \/ fsPanicked
             \/ \E w \in Workers :
                   /\ jobs[j].phase = WorkingPhase(w)
                   /\ worker[w].job = j /\ worker[w].pc # "wait"
       /\ (j \in DOMAIN jobs /\ ~fsPanicked) ~>
             \/ j \notin DOMAIN jobs
             \/ fsPanicked
             \/ jobs[j].phase = "Done"
             \/ j \in DOMAIN errors


\* C29: a tick of the retry worker changes a job only if the nextRetry of
\* its error entry has come; it then moves exactly Indexing to Queued,
\* Copying to Indexed and Zipping to Copied, drops the error entry and
\* leaves a token in each of the three signal channels.  A job whose
\* nextRetry is still ahead keeps its record and its error entry.
C29_RetryWhenDue ==
    [][errorRetryWorker =>
         \A j \in DOMAIN jobs :
            /\ j \in DOMAIN jobs'
            /\ jobs'[j] # jobs[j] =>
                  /\ j \in DOMAIN errors
                  /\ errors[j] <= now
                  /\ <<jobs[j].phase, jobs'[j].phase>> \in
                        {<<"Indexing", "Queued">>, <<"Copying", "Indexed">>,
                         <<"Zipping", "Copied">>}
                  /\ jobs'[j] = [jobs[j] EXCEPT !.phase = jobs'[j].phase]
                  /\ j \notin DOMAIN errors'
                  /\ sig' = AllSignals
            /\ (j \in DOMAIN errors /\ errors[j] <= now
                   /\ jobs[j].phase \in InterruptedPhases)
                  => jobs'[j] # jobs[j]
            /\ (j \in DOMAIN errors /\ errors[j] > now) =>
                  /\ jobs'[j] = jobs[j]
                  /\ j \in DOMAIN errors'
                  /\ errors'[j] = errors[j]]_vars

\* A copy failed, its nextRetry came and the retry worker made the job
\* Indexed again, the entry it failed on still InProgress.
C29_Witness ==
    \E j \in DOMAIN jobs :
       /\ jobs[j].phase = "Indexed"
       /\ \E e \in DOMAIN jobs[j].manifest : jobs[j].manifest[e] = "InProgress"
       /\ j \notin DOMAIN errors
       /\ j \in DOMAIN jobCtxCancellers
       /\ jobCtxCancellers[j] = "ended"
       /\ sig = AllSignals
       /\ now > 0


\* C30: what the entry has added to BytesCopied is never below 0 nor above
\* the size of the source (a mismatch of the sums takes off what the entry
\* had added), and it is the size of the source when the entry is Complete.
C30_BytesCopied ==
    /\ copy.bytes >= 0
    /\ copy.bytes <= Len(srcFile)
    /\ copy.pc = "complete" => copy.bytes = Len(srcFile)


\* C31: once the context of the copying task is cancelled while it copies a
\* regular file, the task leaves the file only by returning an error: the
\* entry does not get to be marked Complete and the worker does not go on
\* to the next entry or to changeJobPhase(Copied).
C31_CancelStopsCopy ==
    [][(/\ worker["copying"].ctxDone
        /\ worker["copying"].pc \in {"check", "write"}
        /\ worker'["copying"].pc \notin {"check", "write"}
        /\ worker'["copying"] # IdleWorker)
          => /\ worker'["copying"].pc = "finish"
             /\ worker'["copying"].err]_vars


\* C32: when doCopying has returned nil for a job that is still in the
\* registry (the copying worker is about to call changeJobPhase(Copied)),
\* every entry of the job's stored manifest is Complete or Skipped; this
\* includes a symlink whose Stat failed, whatever its place in the sorted
\* order of the entries.
C32_ManifestSettled ==
    LET w == worker["copying"]
    IN  (/\ w.pc = "finish"
         /\ ~w.err
         /\ ~w.ctxDone
         /\ w.job \in DOMAIN jobs
         /\ w.manifest # EmptyMap)
           => \A e \in DOMAIN jobs[w.job].manifest :
                 jobs[w.job].manifest[e] \in {"Complete", "Skipped"}


\* C33: the stored history is written only by a flush that finds the dirty
\* bit set (Stop and the background pause set it just before they flush);
\* the write stores the history in memory and clears the bit.  As long as
\* the changes in memory have not been written the bit stays set, so a
\* failed write leaves it for the next tick of flushLoop; and the periodic
\* flush touches neither the history nor the running map.
C33_FlushWhenDirty ==
    [][LET written == edb' # edb /\ edb'.found
           stored == [found |-> TRUE, hist |-> jobHistory]
       IN  /\ written => /\ dirty \/ caller.op = "Stop" \/ mon.op = "BgPause"
                         /\ ~dirty'
                         /\ edb' = stored
           /\ (dirty /\ edb' # stored /\ ~Restart) => dirty'
           /\ (written /\ caller.op = "none" /\ mon.op = "none")
                 => jobHistory' = jobHistory /\ runningJobs' = runningJobs]_vars

\* The periodic flush has written the history of a job that is running.
C33_Witness ==
    /\ started
    /\ LockFree
    /\ mon.op = "none"
    /\ ~dirty
    /\ edb.found
    /\ edb.hist = jobHistory
    /\ runningJobs # EmptyMap
    /\ \E j \in DOMAIN jobHistory : jobHistory[j].status = "Running"


\* C34: every step that changes the loaded job history is made by a thread
\* that holds the registry mutex (never by the app-state monitor on its
\* own) and has set the dirty bit, or written the change out, by the time
\* the mutex is free again; so whenever the mutex is free and the dirty bit
\* is clear, the stored history is the history in memory.
C34_MutationsSetDirty ==
    /\ [][(jobHistory' # jobHistory /\ inited /\ inited')
             => /\ mon' = mon
                /\ \/ dirty'
                   \/ caller'.op # "none"
                   \/ edb' = [found |-> TRUE, hist |-> jobHistory']]_vars
    /\ [](LockFree /\ inited /\ ~dirty /\ edb.found => edb.hist = jobHistory)


\* C35: the job history, the running map and the dirty bit are accessed
\* only under the registry mutex: the app-state monitor is never inside
\* bgPauseAllJobsLocked while another thread is inside a handler that holds
\* the mutex.
C35_MutualExclusion == ~(mon.op = "BgPause" /\ caller.op # "none")


\* C36: no stage worker panics, and a step of a worker whose job has been
\* removed from the registry leaves the registry as it is: its manifest,
\* counter and phase updates for the missing job are no-ops.
C36_MissingJobHarmless ==
    /\ [][\A w \in Workers :
             (/\ worker[w] # IdleWorker
              /\ worker[w].job \notin DOMAIN jobs
              /\ worker'[w] # worker[w]
              /\ ~newArchiveManager
              /\ ~shutdown) => jobs' = jobs]_vars
    /\ [](~fsPanicked)


\* C37: a job whose stored status was Running when the process died is not
\* stuck in the new process: once the registry is started and its delayed
\* resume has run, the job is not left in status Running with no executor
\* and no cancel handle while Pause and Resume both reject it.
C37_NotStuck ==
    \A j \in Jobs :
       ~(/\ started
         /\ LockFree
         /\ pending = {}
         /\ j \in DOMAIN InitHist
         /\ InitHist[j].status = "Running"
         /\ ActiveExecs(j) = {}
         /\ j \notin DOMAIN runningJobs
         /\ PauseResult(j) # "ok"
         /\ ResumeResult(j) # "ok")

====
